---- MODULE Spec2Model ----
(***************************************************************************)
(* Job discovery pipeline of life-systems: the scan orchestrator           *)
(* (discovery/scanner.py), the two scoring engines (discovery/scorer.py    *)
(* and discovery/scorer/scorer.py) and the qualifier                       *)
(* (application/acl_opportunity_qualifier.py).                             *)
(*                                                                         *)
(* lower(), strip() and substring tests are computed on the strings.       *)
(***************************************************************************)
EXTENDS Integers, Sequences, FiniteSets, TLC

\* ------------------------------------------------------------------ bounds
NumSources == 2
MaxScans == 2
MaxEvents == 2
MaxOtherRuns == 1
MaxHits == 2

\* ------------------------------------------------------------- scan state
VARIABLES
    pc,            \* position of the JobScanner instance: none/idle/fetch/publish/save/done
    seen_keys,     \* JobScanner.seen_keys (in memory)
    seenFile,      \* seen_listings.json on disk
    eventFiles,    \* the events_<timestamp>.jsonl files on disk, oldest first;
                   \* a line is represented by the dedup key of its payload
    sameSecond,    \* the clock still shows the second that names the newest file
    idx,           \* position of the fetch loop in self.sources
    all_listings,  \* scan(): all_listings
    failures,      \* scan(): failures
    deduped,       \* scan(): deduped
    new_listings,  \* scan(): new_listings
    events,        \* scan(): events
    summary,       \* value returned by scan()
    fetchCalls,    \* history: number of fetch() calls per source in this scan
    raised,        \* history: sources whose fetch() raised in this scan
    seen0,         \* history: seen_keys when the scan started
    written,       \* history: event lines written by this scan
    pubCount,      \* history: number of event lines ever written per dedup key
    faulted,       \* history: some write failed or the process crashed
    scans          \* history: number of scans started

scanVars == <<pc, seen_keys, seenFile, eventFiles, sameSecond, idx, all_listings,
              failures, deduped, new_listings, events, summary, fetchCalls,
              raised, seen0, written, pubCount, faulted, scans>>

\* --------------------------------------------- scoring and qualifier state
VARIABLES
    scorer,        \* the JobScorer instance: its configuration, or NoScorer
    listing,       \* the OpportunityDiscovered payload handed to score_listing
    scored,        \* what the latest score_listing call gave
    scoredBy,      \* history: the configuration of the scorer that gave it
    prevScored,    \* history: what the call before it gave, for the same listing
    scoredFile,    \* the OpportunityScored events written so far, oldest first
    qualified,     \* generate_drafts: what qualify returned for each event loaded
    qualifier,     \* OpportunityQualifier.score_threshold, or NoQualifier
    qevent,        \* the event handed to the latest qualify call of the qualifier
    qresult        \* what that call returned

scoreVars == <<scorer, listing, scored, scoredBy, prevScored>>

pipeVars == <<scoredFile, qualified>>

qualVars == <<qualifier, qevent, qresult>>

\* ------------------------------------------- state of the entry point
VARIABLES
    mainPc,        \* position of discovery/main.py: none/config/sources/run/exited
    config,        \* the configuration file main() was started on
    scansAtStart,  \* history: number of scans started before this process
    exitStatus     \* exit status of the process, once it has exited

mainVars == <<mainPc, config, scansAtStart, exitStatus>>

\* a second process on the same output directory: the keys it published and
\* the number of runs it made
VARIABLES otherPub, otherRuns

concVars == <<otherPub, otherRuns>>

\* a source adapter at work: the job card it parses and what it extracted
VARIABLES card, parsed

\* HNAlgoliaSource.fetch: its position, the threads still to fetch, the
\* listings parsed so far, and the listings that were parsed and not returned
VARIABLES hnPc, hnHits, hnListings, hnLost

adapterVars == <<card, parsed>>

hnVars == <<hnPc, hnHits, hnListings, hnLost>>

extVars == <<concVars, adapterVars, hnVars>>

vars == <<scanVars, scoreVars, pipeVars, qualVars, mainVars, extVars>>

NoScorer == [impl |-> 0]

NoListing == [location |-> ""]

NotScored == [called |-> FALSE]

NoQualifier == [constructed |-> FALSE]

NoEvent == [event_type |-> ""]

\* nothing scored or qualified yet
ScoreIdle ==
    /\ scorer = NoScorer
    /\ listing = NoListing
    /\ scored = NotScored
    /\ scoredBy = NoScorer
    /\ prevScored = NotScored

PipeIdle ==
    /\ scoredFile = <<>>
    /\ qualified = <<>>

QualIdle ==
    /\ qualifier = NoQualifier
    /\ qevent = NoEvent
    /\ qresult = {}

NoCard == [role |-> "", salary |-> ""]

NotParsed == [adapter |-> ""]

\* no second process, no adapter at work
ExtIdle ==
    /\ otherPub = <<>>
    /\ otherRuns = 0
    /\ card = NoCard
    /\ parsed = NotParsed
    /\ hnPc = "idle"
    /\ hnHits = 0
    /\ hnListings = <<>>
    /\ hnLost = <<>>

\* main() has not been started
MainIdle ==
    /\ mainPc = "none"
    /\ config = ""
    /\ scansAtStart = 0
    /\ exitStatus = {}

\* ------------------------------------------------------------ strings
\* Python strings are TLA+ strings; a character is a string of length 1.
UpperChars == "ABCDEFGHIJKLMNOPQRSTUVWXYZ"

LowerChars == "abcdefghijklmnopqrstuvwxyz"

CharAt(s, i) == SubSeq(s, i, i)

\* the lower-case letter of each upper-case letter
LowerOf ==
    [c \in { CharAt(UpperChars, i) : i \in 1..Len(UpperChars) } |->
        CharAt(LowerChars, CHOOSE i \in 1..Len(UpperChars) : CharAt(UpperChars, i) = c)]

LowerChar(c) == IF c \in DOMAIN LowerOf THEN LowerOf[c] ELSE c

\* str.lower()
RECURSIVE Lower(_)
Lower(s) ==
    IF Len(s) = 0 THEN ""
    ELSE IF Len(s) = 1 THEN LowerChar(s)
    ELSE LET h == Len(s) \div 2
         IN  Lower(SubSeq(s, 1, h)) \o Lower(SubSeq(s, h + 1, Len(s)))

RECURSIVE LStrip(_)
LStrip(s) ==
    IF Len(s) > 0 /\ CharAt(s, 1) = " " THEN LStrip(SubSeq(s, 2, Len(s))) ELSE s

RECURSIVE RStrip(_)
RStrip(s) ==
    IF Len(s) > 0 /\ CharAt(s, Len(s)) = " "
    THEN RStrip(SubSeq(s, 1, Len(s) - 1))
    ELSE s

\* str.strip()
Strip(s) == RStrip(LStrip(s))

\* ------------------------------------------------------------ listings
Sources == 1..NumSources

SourceNames == <<"hn_algolia", "working_nomads", "aijobs_uk", "source4">>

source_name(i) == SourceNames[i]

\* JobListing as an adapter builds it (sources still empty)
ListingA == [company |-> "CompanyA", role |-> "ML Engineer", description |-> "d1", sources |-> <<>>]

\* the same posting as ListingA, with other letter case, blanks and description
ListingA2 == [company |-> " companya", role |-> "ml engineer ", description |-> "d2", sources |-> <<>>]

ListingB == [company |-> "CompanyB", role |-> "Data Scientist", description |-> "d1", sources |-> <<>>]

RawListings == {ListingA, ListingA2, ListingB}

\* JobListing.dedup_key, on the two fields it reads
dedup_key_of(company, role) == Strip(Lower(company)) \o "::" \o Strip(Lower(role))

\* the keys of the listings the adapters return, computed once
KeyTable ==
    [p \in { <<l.company, l.role>> : l \in RawListings } |-> dedup_key_of(p[1], p[2])]

\* JobListing.dedup_key
dedup_key(l) == KeyTable[<<l.company, l.role>>]

Keys == { dedup_key(l) : l \in RawListings }

\* what one fetch() can return
FetchResults ==
    { <<>>, <<ListingA>>, <<ListingA2>>, <<ListingB>>,
      <<ListingA, ListingA2>> }

Range(q) == { q[i] : i \in 1..Len(q) }

KeysOf(q) == { dedup_key(q[i]) : i \in 1..Len(q) }

\* JobSource._tag_source
tag_source(listings, name) ==
    [i \in 1..Len(listings) |->
        IF name \in Range(listings[i].sources)
        THEN listings[i]
        ELSE [listings[i] EXCEPT !.sources = Append(@, name)]]

\* mutant: the sources of the later listing replace the canonical entry's
merge_sources_overwrite(existing, new) == new

\* JobScanner._deduplicate, inner loop: append each source not yet listed
RECURSIVE merge_sources(_, _)
merge_sources(existing, new) ==
    IF new = <<>> THEN existing
    ELSE merge_sources(
            IF Head(new) \in Range(existing) THEN existing
            ELSE Append(existing, Head(new)),
            Tail(new))

\* position of key in the insertion-ordered dedup_map, 0 when absent
PosOfKey(acc, key) ==
    IF \E i \in 1..Len(acc) : dedup_key(acc[i]) = key
    THEN CHOOSE i \in 1..Len(acc) : dedup_key(acc[i]) = key
    ELSE 0

RECURSIVE dedup_into(_, _)
dedup_into(listings, acc) ==
    IF listings = <<>> THEN acc
    ELSE LET l == Head(listings)
             pos == PosOfKey(acc, dedup_key(l))
         IN  IF pos # 0
             THEN dedup_into(Tail(listings),
                    [acc EXCEPT ![pos].sources = merge_sources(@, l.sources)])
             ELSE dedup_into(Tail(listings), Append(acc, l))

\* JobScanner._deduplicate: list(dedup_map.values()), in insertion order
\* _deduplicate that keeps every listing
deduplicate_none(listings) == listings

deduplicate(listings) == dedup_into(listings, <<>>)

RECURSIVE FilterSeq(_, _)
FilterSeq(q, S) ==
    IF q = <<>> THEN <<>>
    ELSE IF dedup_key(Head(q)) \in S
         THEN FilterSeq(Tail(q), S)
         ELSE <<Head(q)>> \o FilterSeq(Tail(q), S)

\* mutant: nothing is filtered as seen
filter_new_all(listings, seen) == listings

\* scan(): listings whose dedup key is not in self.seen_keys
filter_new(listings, seen) == FilterSeq(listings, seen)

\* OpportunityDiscoveredEvent.from_listing
from_listing(l) ==
    [event_type |-> "OpportunityDiscovered",
     payload |-> [company |-> l.company, role |-> l.role,
                  description |-> l.description, sources |-> l.sources]]

EventKey(e) == dedup_key(e.payload)

\* seen_listings.json
NoFile == [status |-> "absent", keys |-> {}]

\* JobScanner._load_seen (the file must hold complete JSON)
load_seen(file) == IF file.status = "ok" THEN file.keys ELSE {}

\* JobScanner._save_seen
save_seen(keys) == [status |-> "ok", keys |-> keys]

CountKey(q, k) == Cardinality({ i \in 1..Len(q) : EventKey(q[i]) = k })

\* ------------------------------------------------------------ scan actions
ScanInit ==
    /\ pc = "none"
    /\ seen_keys = {}
    /\ seenFile = NoFile
    /\ eventFiles = <<>>
    /\ sameSecond = FALSE
    /\ idx = 0
    /\ all_listings = <<>>
    /\ failures = <<>>
    /\ deduped = <<>>
    /\ new_listings = <<>>
    /\ events = <<>>
    /\ summary = [returned |-> FALSE]
    /\ fetchCalls = [s \in Sources |-> 0]
    /\ raised = {}
    /\ seen0 = {}
    /\ written = <<>>
    /\ pubCount = [k \in Keys |-> 0]
    /\ faulted = FALSE
    /\ scans = 0

scanLocals == <<idx, all_listings, failures, deduped, new_listings, events,
                summary, fetchCalls, raised, seen0, written>>

\* the locals of scan() and the per-scan history, as at its entry
ClearLocals ==
    /\ idx' = 0
    /\ all_listings' = <<>>
    /\ failures' = <<>>
    /\ deduped' = <<>>
    /\ new_listings' = <<>>
    /\ events' = <<>>
    /\ summary' = [returned |-> FALSE]
    /\ fetchCalls' = [s \in Sources |-> 0]
    /\ raised' = {}
    /\ seen0' = {}
    /\ written' = <<>>

\* JobScanner.__init__ between runs: a new instance replaces the old one
Construct ==
    /\ pc \in {"none", "idle", "done"}
    /\ seenFile.status # "partial"
    /\ seen_keys' = load_seen(seenFile)
    /\ pc' = "idle"
    /\ ClearLocals
    /\ UNCHANGED <<seenFile, eventFiles, sameSecond, pubCount, faulted, scans>>
    /\ UNCHANGED <<scoreVars, pipeVars, qualVars, mainVars, extVars>>

\* JobScanner.__init__ when json.load raises on a truncated file
ConstructFail ==
    /\ pc \in {"none", "idle", "done"}
    /\ seenFile.status = "partial"
    /\ pc' = "none"
    /\ seen_keys' = {}
    /\ ClearLocals
    /\ UNCHANGED <<seenFile, eventFiles, sameSecond, pubCount, faulted, scans>>
    /\ UNCHANGED <<scoreVars, pipeVars, qualVars, mainVars, extVars>>

\* scan() entry: all_listings = [], failures = []
ScanStart ==
    /\ pc \in {"idle", "done"}
    /\ scans < MaxScans
    /\ scans' = scans + 1
    /\ pc' = "fetch"
    /\ idx' = 1
    /\ all_listings' = <<>>
    /\ failures' = <<>>
    /\ deduped' = <<>>
    /\ new_listings' = <<>>
    /\ events' = <<>>
    /\ summary' = [returned |-> FALSE]
    /\ fetchCalls' = [s \in Sources |-> 0]
    /\ raised' = {}
    /\ seen0' = seen_keys
    /\ written' = <<>>
    /\ UNCHANGED <<seen_keys, seenFile, eventFiles, sameSecond, pubCount, faulted>>
    /\ UNCHANGED <<scoreVars, pipeVars, qualVars, mainVars, extVars>>

\* loop body, try branch: source.fetch() returns
FetchOk ==
    /\ pc = "fetch"
    /\ idx <= NumSources
    /\ \E ls \in FetchResults :
          all_listings' = all_listings \o tag_source(ls, source_name(idx))
    /\ fetchCalls' = [fetchCalls EXCEPT ![idx] = @ + 1]
    /\ idx' = idx + 1
    /\ UNCHANGED <<pc, seen_keys, seenFile, eventFiles, sameSecond, failures, deduped,
                   new_listings, events, summary, raised, seen0, written,
                   pubCount, faulted, scans>>
    /\ UNCHANGED <<scoreVars, pipeVars, qualVars, mainVars, extVars>>

\* mutant: the first failing source ends the loop
FetchRaiseBreak ==
    /\ pc = "fetch"
    /\ idx <= NumSources
    /\ failures' = Append(failures, [source |-> source_name(idx), error |-> "e"])
    /\ fetchCalls' = [fetchCalls EXCEPT ![idx] = @ + 1]
    /\ raised' = raised \cup {idx}
    /\ idx' = NumSources + 1
    /\ UNCHANGED <<pc, seen_keys, seenFile, eventFiles, sameSecond, all_listings, deduped,
                   new_listings, events, summary, seen0, written, pubCount,
                   faulted, scans>>
    /\ UNCHANGED <<scoreVars, pipeVars, qualVars, mainVars, extVars>>

\* loop body, except branch: source.fetch() raises
FetchRaise ==
    /\ pc = "fetch"
    /\ idx <= NumSources
    /\ failures' = Append(failures, [source |-> source_name(idx), error |-> "e"])
    /\ fetchCalls' = [fetchCalls EXCEPT ![idx] = @ + 1]
    /\ raised' = raised \cup {idx}
    /\ idx' = idx + 1
    /\ UNCHANGED <<pc, seen_keys, seenFile, eventFiles, sameSecond, all_listings, deduped,
                   new_listings, events, summary, seen0, written, pubCount,
                   faulted, scans>>
    /\ UNCHANGED <<scoreVars, pipeVars, qualVars, mainVars, extVars>>

\* scan() lines 64-78: deduplicate, filter, build the events, mark seen
Prepare ==
    /\ pc = "fetch"
    /\ idx > NumSources
    /\ LET d == deduplicate(all_listings)
           n == filter_new(d, seen_keys)
       IN  /\ deduped' = d
           /\ new_listings' = n
           /\ events' = [i \in 1..Len(n) |-> from_listing(n[i])]
           /\ seen_keys' = seen_keys \cup KeysOf(n)
    /\ pc' = "publish"
    /\ UNCHANGED <<seenFile, eventFiles, sameSecond, idx, all_listings, failures, summary,
                   fetchCalls, raised, seen0, written, pubCount, faulted, scans>>
    /\ UNCHANGED <<scoreVars, pipeVars, qualVars, mainVars, extVars>>

\* scan() line 81: no events, _publish_events is not called
PublishSkip ==
    /\ pc = "publish"
    /\ events = <<>>
    /\ pc' = "save"
    /\ UNCHANGED <<seen_keys, seenFile, eventFiles, sameSecond, scanLocals, pubCount,
                   faulted, scans>>
    /\ UNCHANGED <<scoreVars, pipeVars, qualVars, mainVars, extVars>>

\* open(event_file, 'w'): the file named by the current second is created, or
\* truncated when a file of this second exists
write_event_file(files, same, lines) ==
    IF same /\ files # <<>>
    THEN [files EXCEPT ![Len(files)] = lines]
    ELSE Append(files, lines)

LineKeys(q) == [i \in 1..Len(q) |-> EventKey(q[i])]

\* _publish_events: open the file of the current second and write every line
PublishOk ==
    /\ pc = "publish"
    /\ events # <<>>
    /\ eventFiles' = write_event_file(eventFiles, sameSecond, LineKeys(events))
    /\ sameSecond' = TRUE
    /\ written' = events
    /\ pubCount' = [k \in Keys |-> pubCount[k] + CountKey(events, k)]
    /\ pc' = "save"
    /\ UNCHANGED <<seen_keys, seenFile, idx, all_listings, failures, deduped,
                   new_listings, events, summary, fetchCalls, raised, seen0,
                   faulted, scans>>
    /\ UNCHANGED <<scoreVars, pipeVars, qualVars, mainVars, extVars>>

\* _publish_events fails after n lines (or open() itself fails): the error
\* leaves scan() and the instance lives on, or the process dies
PublishFail ==
    /\ pc = "publish"
    /\ events # <<>>
    /\ \E n \in 0..(Len(events) - 1), opened \in BOOLEAN :
          /\ opened = FALSE => n = 0
          /\ eventFiles' = IF opened
                           THEN write_event_file(eventFiles, sameSecond,
                                                 LineKeys(SubSeq(events, 1, n)))
                           ELSE eventFiles
          /\ sameSecond' = (sameSecond \/ opened)
          /\ pubCount' = [k \in Keys |->
                            pubCount[k] + CountKey(SubSeq(events, 1, n), k)]
    /\ \/ pc' = "idle" /\ seen_keys' = seen_keys
       \/ pc' = "none" /\ seen_keys' = {}
    /\ faulted' = TRUE
    /\ ClearLocals
    /\ UNCHANGED <<seenFile, scans>>
    /\ UNCHANGED <<scoreVars, pipeVars, qualVars, mainVars, extVars>>

\* scan() lines 85-97: _save_seen, then the summary is returned
SaveOk ==
    /\ pc = "save"
    /\ seenFile' = save_seen(seen_keys)
    /\ summary' = [returned |-> TRUE,
                   sources_succeeded |-> NumSources - Len(failures),
                   sources_failed |-> Len(failures),
                   failures |-> failures,
                   total_fetched |-> Len(all_listings),
                   after_dedup |-> Len(deduped),
                   new_listings |-> Len(new_listings),
                   events_published |-> Len(events)]
    /\ pc' = "done"
    /\ UNCHANGED <<seen_keys, eventFiles, sameSecond, idx, all_listings, failures, deduped,
                   new_listings, events, fetchCalls, raised, seen0, written,
                   pubCount, faulted, scans>>
    /\ UNCHANGED <<scoreVars, pipeVars, qualVars, mainVars, extVars>>

\* mutant: the failure of _save_seen is swallowed and scan() returns its summary
SaveFailSwallowed ==
    /\ pc = "save"
    /\ seenFile' \in {seenFile, [status |-> "partial", keys |-> {}]}
    /\ summary' = [returned |-> TRUE,
                   sources_succeeded |-> NumSources - Len(failures),
                   sources_failed |-> Len(failures),
                   failures |-> failures,
                   total_fetched |-> Len(all_listings),
                   after_dedup |-> Len(deduped),
                   new_listings |-> Len(new_listings),
                   events_published |-> Len(events)]
    /\ pc' = "done"
    /\ faulted' = TRUE
    /\ UNCHANGED <<seen_keys, eventFiles, sameSecond, idx, all_listings, failures, deduped,
                   new_listings, events, fetchCalls, raised, seen0, written,
                   pubCount, scans>>
    /\ UNCHANGED <<scoreVars, pipeVars, qualVars, mainVars, extVars>>

\* _save_seen fails: open() fails (file untouched) or the write stops after
\* open(..., 'w') truncated the file; the error leaves scan() or the process dies
SaveFail ==
    /\ pc = "save"
    /\ seenFile' \in {seenFile, [status |-> "partial", keys |-> {}]}
    /\ \/ pc' = "idle" /\ seen_keys' = seen_keys
       \/ pc' = "none" /\ seen_keys' = {}
    /\ faulted' = TRUE
    /\ ClearLocals
    /\ UNCHANGED <<eventFiles, sameSecond, pubCount, scans>>
    /\ UNCHANGED <<scoreVars, pipeVars, qualVars, mainVars, extVars>>

\* the process dies between two steps of scan()
Crash ==
    /\ pc \in {"fetch", "publish", "save"}
    /\ pc' = "none"
    /\ seen_keys' = {}
    /\ faulted' = TRUE
    /\ ClearLocals
    /\ UNCHANGED <<seenFile, eventFiles, sameSecond, pubCount, scans>>
    /\ UNCHANGED <<scoreVars, pipeVars, qualVars, mainVars, extVars>>

\* datetime.utcnow() advances to the next second
Tick ==
    /\ sameSecond
    /\ sameSecond' = FALSE
    /\ UNCHANGED <<pc, seen_keys, seenFile, eventFiles, scanLocals, pubCount,
                   faulted, scans>>
    /\ UNCHANGED <<scoreVars, pipeVars, qualVars, mainVars, extVars>>

ScanNext ==
    \/ Construct
    \/ ConstructFail
    \/ ScanStart
    \/ FetchOk
    \/ FetchRaise
    \/ Prepare
    \/ PublishSkip
    \/ PublishOk
    \/ PublishFail
    \/ SaveOk
    \/ SaveFail
    \/ Crash
    \/ Tick

Init == ScanInit /\ ScoreIdle /\ PipeIdle /\ QualIdle /\ MainIdle /\ ExtIdle

Next == ScanNext

Spec == Init /\ [][Next]_vars

\* ------------------------------- two runs on one output directory
\* A second process runs main() on the same output directory while this one
\* is between its _load_seen and its _save_seen: it loads seen.json, scans,
\* publishes its new listings and saves.  Nothing in JobScanner locks the
\* directory, so every placement of its run among the steps of this one is
\* possible; the run is taken here as one step.
OtherRun ==
    /\ pc \in {"idle", "fetch", "publish", "save"}
    /\ otherRuns < MaxOtherRuns
    /\ otherRuns' = otherRuns + 1
    /\ seenFile.status # "partial"
    /\ \E ls \in FetchResults :
          LET seen2 == load_seen(seenFile)
              d == deduplicate(tag_source(ls, source_name(1)))
              n == filter_new(d, seen2)
              ev == [i \in 1..Len(n) |-> from_listing(n[i])]
          IN  /\ eventFiles' = IF ev = <<>> THEN eventFiles
                               ELSE write_event_file(eventFiles, sameSecond,
                                                     LineKeys(ev))
              /\ sameSecond' = (sameSecond \/ ev # <<>>)
              /\ pubCount' = [k \in Keys |-> pubCount[k] + CountKey(ev, k)]
              /\ otherPub' = otherPub \o LineKeys(ev)
              /\ seenFile' = save_seen(seen2 \cup KeysOf(n))
    /\ UNCHANGED <<pc, seen_keys, scanLocals, faulted, scans>>
    /\ UNCHANGED <<scoreVars, pipeVars, qualVars, mainVars, adapterVars, hnVars>>

ConcNext ==
    \/ Construct
    \/ ConstructFail
    \/ ScanStart
    \/ FetchOk
    \/ FetchRaise
    \/ Prepare
    \/ PublishSkip
    \/ PublishOk
    \/ PublishFail
    \/ SaveOk
    \/ SaveFail
    \/ Crash
    \/ Tick
    \/ OtherRun

ConcSpec == Init /\ [][ConcNext]_vars

\* ------------------------------------------- discovery/main.py: main()
\* the configuration files main() is started on: one that cannot be read, one
\* without the sources key, one enabling nothing, one enabling only a source
\* that has no adapter, and one enabling the adapters
MainConfigs == {"unreadable", "no_sources", "none_enabled", "unknown_enabled", "enabled"}

\* build_sources: the number of source instances built
build_sources(cfg) == IF cfg = "enabled" THEN NumSources ELSE 0

\* mutant: any failed source makes the run a failure
exit_code_strict(s) ==
    IF s.sources_succeeded = 0 THEN 1
    ELSE IF s.sources_failed > 0 THEN 1
    ELSE 0

\* main(): the exit code chosen from the summary
exit_code(s) ==
    IF s.sources_succeeded = 0 THEN 1
    ELSE IF s.sources_failed > 0 THEN 0
    ELSE 0

\* sys.exit(status), or the interpreter ending on an uncaught exception
Exit(status) ==
    /\ mainPc' = "exited"
    /\ exitStatus' = {status}
    /\ UNCHANGED <<config, scansAtStart>>

\* a new process runs main(); nothing of an earlier process is in memory
MainStart ==
    /\ mainPc \in {"none", "exited"}
    /\ \E c \in MainConfigs : config' = c
    /\ mainPc' = "config"
    /\ scansAtStart' = scans
    /\ exitStatus' = {}
    /\ pc' = "none"
    /\ seen_keys' = {}
    /\ ClearLocals
    /\ UNCHANGED <<seenFile, eventFiles, sameSecond, pubCount, faulted, scans>>
    /\ UNCHANGED <<scoreVars, pipeVars, qualVars, extVars>>

\* main(): load_config, sys.exit(1) when it raises
MainLoadConfig ==
    /\ mainPc = "config"
    /\ IF config = "unreadable"
       THEN Exit(1)
       ELSE mainPc' = "sources" /\ UNCHANGED <<config, scansAtStart, exitStatus>>
    /\ UNCHANGED <<scanVars, scoreVars, pipeVars, qualVars, extVars>>

\* main(): build_sources; config["sources"] raises KeyError without the key,
\* sys.exit(1) when no source was built
MainBuildSources ==
    /\ mainPc = "sources"
    /\ IF config = "no_sources" \/ build_sources(config) = 0
       THEN Exit(1)
       ELSE mainPc' = "construct" /\ UNCHANGED <<config, scansAtStart, exitStatus>>
    /\ UNCHANGED <<scanVars, scoreVars, pipeVars, qualVars, extVars>>

\* main(): scanner = JobScanner(sources, args.output_dir); json.load raises
\* on a truncated seen_listings.json
MainConstruct ==
    /\ mainPc = "construct"
    /\ IF seenFile.status = "partial"
       THEN Exit(1) /\ UNCHANGED <<pc, seen_keys>>
       ELSE /\ seen_keys' = load_seen(seenFile)
            /\ pc' = "idle"
            /\ mainPc' = "run"
            /\ UNCHANGED <<config, scansAtStart, exitStatus>>
    /\ UNCHANGED <<seenFile, eventFiles, sameSecond, scanLocals, pubCount, faulted, scans>>
    /\ UNCHANGED <<scoreVars, pipeVars, qualVars, extVars>>

\* main(): summary = scanner.scan()
MainScan ==
    /\ mainPc = "run"
    /\ pc = "idle"
    /\ scans = scansAtStart
    /\ ScanStart

\* main(): the exit code based on the summary
MainExit ==
    /\ mainPc = "run"
    /\ pc = "done"
    /\ Exit(exit_code(summary))
    /\ UNCHANGED <<scanVars, scoreVars, pipeVars, qualVars, extVars>>

\* an exception left scan(): main() does not catch it, the interpreter
\* prints the traceback and exits with status 1
MainUncaught ==
    /\ mainPc = "run"
    /\ pc = "idle"
    /\ scans > scansAtStart
    /\ Exit(1)
    /\ UNCHANGED <<scanVars, scoreVars, pipeVars, qualVars, extVars>>

\* the process died during scan(): its status is that of the signal
MainKilled ==
    /\ mainPc = "run"
    /\ pc = "none"
    /\ Exit(128 + 9)
    /\ UNCHANGED <<scanVars, scoreVars, pipeVars, qualVars, extVars>>

MainNext ==
    \/ MainStart
    \/ MainLoadConfig
    \/ MainBuildSources
    \/ MainConstruct
    \/ MainScan
    \/ FetchOk
    \/ FetchRaise
    \/ Prepare
    \/ PublishSkip
    \/ PublishOk
    \/ PublishFail
    \/ SaveOk
    \/ SaveFail
    \/ Crash
    \/ Tick
    \/ MainExit
    \/ MainUncaught
    \/ MainKilled

MainSpec == Init /\ [][MainNext]_vars

\* ------------------------------------------------------ scan properties
PublishedKeys == { k \in Keys : pubCount[k] > 0 }

IndicesOfKey(q, k) == { i \in 1..Len(q) : dedup_key(q[i]) = k }

FirstOfKey(q, k) ==
    q[CHOOSE i \in IndicesOfKey(q, k) : \A j \in IndicesOfKey(q, k) : i <= j]

SourcesOfKey(q, k) == UNION { Range(q[i].sources) : i \in IndicesOfKey(q, k) }

SameFields(x, y) ==
    /\ x.company = y.company
    /\ x.role = y.role
    /\ x.description = y.description

\* C1: as long as no write has failed and the process has not crashed, no
\* dedup key has had more than one discovery event line written for it, over
\* all the scans run so far on the output directory (by a reused instance or by
\* a newly constructed one).
C1_PublishedAtMostOnce ==
    ~faulted => \A k \in Keys : pubCount[k] <= 1

\* C1 witness: a second crash-free scan has returned after fetching a listing
\* whose key an earlier scan published; the listing is spelled differently
\* (other case, blanks, description) and was filtered out.
C1_Witness ==
    /\ ~faulted
    /\ scans = 2
    /\ pc = "done"
    /\ \E i \in 1..Len(all_listings) :
          /\ SameFields(all_listings[i], ListingA2)
          /\ dedup_key(all_listings[i]) \in seen0
          /\ pubCount[dedup_key(all_listings[i])] = 1
    /\ new_listings = <<>>

\* C2: when a scan has deduplicated and built its events, every dedup key among the fetched
\* listings has exactly one entry in the result; the entry has the non-source
\* fields of the first fetched listing with that key and, as sources, the union
\* of the sources of all fetched listings with that key; and every such key
\* that is new yields exactly one event, whose sources are that union.
C2_DedupMergesSources ==
    pc = "publish" =>
        /\ KeysOf(deduped) = KeysOf(all_listings)
        /\ \A k \in KeysOf(all_listings) :
              /\ Cardinality(IndicesOfKey(deduped, k)) = 1
              /\ SameFields(FirstOfKey(deduped, k), FirstOfKey(all_listings, k))
              /\ Range(FirstOfKey(deduped, k).sources) = SourcesOfKey(all_listings, k)
              /\ k \notin seen0 =>
                    /\ Cardinality({ i \in 1..Len(events) : EventKey(events[i]) = k }) = 1
                    /\ \A i \in 1..Len(events) :
                          EventKey(events[i]) = k =>
                              Range(events[i].payload.sources) = SourcesOfKey(all_listings, k)

\* C2 witness: two adapters returned the same posting, spelled differently; the
\* one entry keeps the first spelling and its event names both adapters.
C2_Witness ==
    /\ pc = "publish"
    /\ Len(all_listings) = 2
    /\ all_listings[1].sources = <<source_name(1)>>
    /\ all_listings[2].sources = <<source_name(2)>>
    /\ SameFields(all_listings[1], ListingA)
    /\ SameFields(all_listings[2], ListingA2)
    /\ Len(events) = 1
    /\ events[1].payload.sources = <<source_name(1), source_name(2)>>
    /\ events[1].payload.description = "d1"

\* C3: when scan() returns, fetch() has been called exactly once on every
\* configured source, the failures list names exactly the sources that raised,
\* and every fetched listing whose key was not yet seen has an event line
\* written by this scan.
C3_FailuresIsolated ==
    pc = "done" =>
        /\ \A s \in Sources : fetchCalls[s] = 1
        /\ Len(failures) = Cardinality(raised)
        /\ { failures[i].source : i \in 1..Len(failures) }
              = { source_name(s) : s \in raised }
        /\ summary.failures = failures
        /\ \A i \in 1..Len(all_listings) :
              dedup_key(all_listings[i]) \notin seen0 =>
                  \E j \in 1..Len(written) :
                      EventKey(written[j]) = dedup_key(all_listings[i])

\* C3 witness: the first source raised, the second returned a new listing, and
\* the scan returned with that listing published.
C3_Witness ==
    /\ pc = "done"
    /\ raised = {1}
    /\ fetchCalls[2] = 1
    /\ Len(written) = 1
    /\ summary.sources_failed = 1

\* C4: the persisted seen-set, and the in-memory seen-set of an instance that
\* is not in the middle of publishing, hold a dedup key only if an event line
\* for that key has been written.
C4_SeenOnlyIfPublished ==
    /\ seenFile.status = "ok" => seenFile.keys \subseteq PublishedKeys
    /\ pc \in {"idle", "fetch", "save", "done"} => seen_keys \subseteq PublishedKeys

\* the number of events the second process published for key k
OtherCount(k) == Cardinality({ i \in 1..Len(otherPub) : otherPub[i] = k })

\* C21 (as stated): runs that share an output directory are serialized with
\* respect to the seen-set: under any interleaving of two runs that meet no
\* failure, no dedup key is published by both, and once this run has saved,
\* the persisted seen-set contains every key either run published.
\* JobScanner takes no lock: a run that loaded seen.json before the other
\* one saved publishes the same key again and overwrites the file with its
\* own set.
C21_RunsSerialized ==
    ~faulted =>
        /\ \A k \in Keys : OtherCount(k) > 0 => pubCount[k] = OtherCount(k)
        /\ pc = "done" => \A k \in Keys : pubCount[k] > 0 => k \in seenFile.keys

\* C25: every summary scan() returns satisfies: sources_succeeded +
\* sources_failed is the number of sources and failures has sources_failed
\* entries, one per source that raised; total_fetched is the number of
\* listings the successful sources returned; after_dedup is the number of
\* distinct dedup keys among them; new_listings is the number of those keys
\* that were not in the seen-set when the scan started; events_published
\* equals new_listings and is the number of event lines written.
C25_SummaryCounts ==
    (pc = "done" /\ summary.returned) =>
        /\ summary.sources_succeeded + summary.sources_failed = NumSources
        /\ summary.sources_failed = Cardinality(raised)
        /\ Len(summary.failures) = summary.sources_failed
        /\ { summary.failures[i].source : i \in 1..Len(summary.failures) }
              = { source_name(i) : i \in raised }
        /\ summary.total_fetched = Len(all_listings)
        /\ \A i \in 1..Len(all_listings) :
              \E j \in Sources \ raised :
                  source_name(j) \in Range(all_listings[i].sources)
        /\ summary.after_dedup = Cardinality(KeysOf(all_listings))
        /\ summary.new_listings = Cardinality(KeysOf(all_listings) \ seen0)
        /\ summary.events_published = summary.new_listings
        /\ summary.events_published = Len(written)
        /\ written /= <<>> => eventFiles[Len(eventFiles)] = LineKeys(written)

\* a scan with a failed source whose other source returned two listings with
\* one key, already seen: 2 fetched, 1 after dedup, 0 new
C25_Witness ==
    /\ pc = "done"
    /\ summary.returned
    /\ summary.sources_failed = 1
    /\ summary.total_fetched = 2
    /\ summary.after_dedup = 1
    /\ summary.new_listings = 0

\* C19 (as stated): whatever fails or crashes while the seen-set is flushed,
\* seen_listings.json holds the complete previous seen-set or the complete
\* new one, never an empty or partial file.  _save_seen opens the file itself
\* with 'w', which truncates it before json.dump writes.
C19_SeenFileNeverPartial ==
    seenFile.status /= "partial"

\* the event lines of key k now present in the event files
LinesInFiles(k) ==
    { <<f, i>> \in (1..Len(eventFiles)) \X (1..Cardinality(Keys)) :
          i <= Len(eventFiles[f]) /\ eventFiles[f][i] = k }

\* C20 (as stated): every event line ever written is still present in the
\* event files, after any number of later scans.  A scan that publishes in
\* the clock second of an earlier one opens the same events_<timestamp>.jsonl
\* with 'w' and replaces its lines.
C20_EventsNeverRemoved ==
    \A k \in Keys : Cardinality(LinesInFiles(k)) = pubCount[k]

\* ------------------------------------------------ entry point properties
Exited == mainPc = "exited"

\* C12: main() exits with 0 when scan() returned and at least one source
\* succeeded (some may have failed), with 1 when scan() returned and every
\* source failed, and with 1 without having started a scan when the
\* configuration cannot be loaded or yields no source.
C12_ExitStatus ==
    Exited =>
        /\ summary.returned =>
              exitStatus = {IF raised = Sources THEN 1 ELSE 0}
        /\ config /= "enabled" =>
              exitStatus = {1} /\ scans = scansAtStart

\* a run in which one source failed and another succeeded exited with 0
C12_Witness ==
    /\ Exited
    /\ summary.returned
    /\ raised /= {}
    /\ raised /= Sources
    /\ summary.sources_failed > 0
    /\ exitStatus = {0}

\* C13: scan() returns its summary only when _save_seen has written the
\* seen-set, and the process exits with 0 only when scan() returned its
\* summary: a failed save gives no summary and no success status.
C13_NoSuccessWithoutSave ==
    /\ summary.returned => seenFile = save_seen(seen_keys)
    /\ (Exited /\ exitStatus = {0}) =>
          summary.returned /\ seenFile = save_seen(seen_keys)

\* the save of this process failed after truncating the file: the process
\* has exited with status 1 and without a summary
C13_Witness ==
    /\ Exited
    /\ scans > scansAtStart
    /\ seenFile.status = "partial"
    /\ ~summary.returned
    /\ exitStatus = {1}

\* ================================================================ scoring
\* A dict is a function on the keys it has; an Optional value is the empty
\* set (None) or the set holding the value.  Scores and thresholds are held
\* in hundredths of a point, weights in ten-thousandths, exchange rates in
\* hundredths.
None == {}

Some(v) == {v}

The(o) == CHOOSE v \in o : TRUE

\* dict.get(k, default)
Get(d, k, default) == IF k \in DOMAIN d THEN d[k] ELSE default

\* dict.get(k) of a key that holds no None
GetOpt(d, k) == IF k \in DOMAIN d THEN Some(d[k]) ELSE None

\* truth value of an Optional[dict]: None and {} are false
TruthyDict(o) == o /= None /\ DOMAIN The(o) /= {}

\* truth value of an Optional[int]: None and 0 are false
TruthyNum(o) == o /= None /\ The(o) /= 0

Min(a, b) == IF a < b THEN a ELSE b

\* kw in s
Contains(s, kw) ==
    \E i \in 1..(Len(s) - Len(kw) + 1) : SubSeq(s, i, i + Len(kw) - 1) = kw

\* sep.join(parts)
RECURSIVE Join(_, _)
Join(parts, sep) ==
    IF Len(parts) = 0 THEN ""
    ELSE IF Len(parts) = 1 THEN parts[1]
    ELSE parts[1] \o sep \o Join(Tail(parts), sep)

\* \w of the regular expressions
WordChars == "abcdefghijklmnopqrstuvwxyzABCDEFGHIJKLMNOPQRSTUVWXYZ0123456789_"

IsWordChar(c) == Contains(WordChars, c)

\* \b at the gap before position i of s
Boundary(s, i) ==
    LET before == i > 1 /\ IsWordChar(CharAt(s, i - 1))
        after  == i <= Len(s) /\ IsWordChar(CharAt(s, i))
    IN  before /= after

\* \b(kw)\b matches at position i of s
MatchesAt(s, kw, i) ==
    /\ i + Len(kw) - 1 <= Len(s)
    /\ SubSeq(s, i, i + Len(kw) - 1) = kw
    /\ Boundary(s, i)
    /\ Boundary(s, i + Len(kw))

\* the alternative the pattern \b(k1|k2|...)\b takes at position i: the first
\* keyword of the list that matches there, 0 if none does
FirstMatch(s, kws, i) ==
    IF \E j \in 1..Len(kws) : MatchesAt(s, kws[j], i)
    THEN CHOOSE j \in 1..Len(kws) :
             /\ MatchesAt(s, kws[j], i)
             /\ \A h \in 1..(j - 1) : ~MatchesAt(s, kws[h], i)
    ELSE 0

\* the positions of s where the pattern matches
MatchStarts(s, kws) == { i \in 1..Len(s) : FirstMatch(s, kws, i) /= 0 }

\* the matches findall takes from position i on: the leftmost one, then those
\* after its end (matches do not overlap)
RECURSIVE FindFrom(_, _, _, _)
FindFrom(s, kws, starts, i) ==
    LET ahead == { p \in starts : p >= i }
    IN  IF ahead = {} THEN {}
        ELSE LET p == CHOOSE q \in ahead : \A r \in ahead : q <= r
                 kw == kws[FirstMatch(s, kws, p)]
             IN  {kw} \cup FindFrom(s, kws, starts, p + Len(kw))

\* set(pattern.findall(s))
FindAll(s, kws) == FindFrom(s, kws, MatchStarts(s, kws), 1)

\* sum(1 for kw in kws if kw in s)
CountIn(s, kws) == Cardinality({ j \in 1..Len(kws) : Contains(s, kws[j]) })

\* any(kw in s for kw in kws)
AnyIn(s, kws) == \E j \in 1..Len(kws) : Contains(s, kws[j])

\* ------------------------------------------------------- configurations
Dimensions == {"remote_match", "ai_ml_relevance", "seniority_match", "salary_match", "fintech_bonus"}

\* ScoringWeights(remote, ai_ml, seniority, salary, fintech), in ten-thousandths
ScoringWeights(r, a, s, m, f) ==
    [remote_match |-> r, ai_ml_relevance |-> a, seniority_match |-> s,
     salary_match |-> m, fintech_bonus |-> f]

\* discovery/scorer.py: defaults of ScoringWeights
DefaultWeights1 == ScoringWeights(4000, 3000, 1500, 1000, 500)

\* discovery/scorer.py: defaults of ScoringConfig
DefaultAiMlKeywords1 ==
    <<"ai", "ml", "machine learning", "artificial intelligence", "llm", "nlp",
      "deep learning", "neural network", "transformer", "gpt", "bert", "rag",
      "retrieval", "embedding", "vector", "langchain", "openai", "anthropic",
      "agent", "automation", "generative", "computer vision", "reinforcement learning">>

DefaultFintechKeywords1 ==
    <<"fintech", "banking", "financial", "credit", "payment", "trading",
      "risk", "compliance", "fraud", "kyc", "aml", "basel", "dodd-frank",
      "hedge fund", "investment", "securities", "blockchain", "crypto">>

\* JobScorer() of discovery/scorer.py with no configuration file
Default1 ==
    [impl |-> 1, weights |-> DefaultWeights1, require_remote |-> TRUE,
     salary_floor |-> Some(120000), ai_ml_keywords |-> DefaultAiMlKeywords1,
     fintech_keywords |-> DefaultFintechKeywords1]

\* the configuration file of the tests of discovery/scorer.py
Custom1 ==
    [impl |-> 1, weights |-> ScoringWeights(5000, 2500, 1500, 500, 500),
     require_remote |-> TRUE, salary_floor |-> Some(100000),
     ai_ml_keywords |-> <<"ai", "ml", "llm">>,
     fintech_keywords |-> <<"fintech", "banking">>]

\* a configuration file that switches both hard filters off
Open1 ==
    [impl |-> 1, weights |-> ScoringWeights(3333, 3000, 1500, 1000, 1167),
     require_remote |-> FALSE, salary_floor |-> None,
     ai_ml_keywords |-> DefaultAiMlKeywords1,
     fintech_keywords |-> DefaultFintechKeywords1]

\* discovery/scorer/scorer.py: defaults of ScoringWeights and of salary_floor
\* a configuration file whose weights, each within [0, 1], sum to 1.3
Invalid1 ==
    [impl |-> 1, weights |-> ScoringWeights(5000, 5000, 1500, 1000, 500),
     require_remote |-> TRUE, salary_floor |-> Some(120000),
     ai_ml_keywords |-> DefaultAiMlKeywords1,
     fintech_keywords |-> DefaultFintechKeywords1]

\* a configuration file whose weights are all 1.0, the largest the model of
\* the configuration accepts
Heavy1 ==
    [impl |-> 1, weights |-> ScoringWeights(10000, 10000, 10000, 10000, 10000),
     require_remote |-> TRUE, salary_floor |-> Some(120000),
     ai_ml_keywords |-> DefaultAiMlKeywords1,
     fintech_keywords |-> DefaultFintechKeywords1]

DefaultWeights2 == ScoringWeights(3500, 3000, 2000, 1000, 500)

Default2 == [impl |-> 2, weights |-> DefaultWeights2, salary_floor |-> Some(100000)]

\* the boosted weights of the tests of discovery/scorer/scorer.py
Boosted2 ==
    [impl |-> 2, weights |-> ScoringWeights(3000, 2500, 2000, 1000, 1500),
     salary_floor |-> Some(100000)]

NoFloor2 == [impl |-> 2, weights |-> DefaultWeights2, salary_floor |-> None]

Configs == {Default1, Custom1, Open1, Invalid1, Heavy1, Default2, Boosted2, NoFloor2}

\* discovery/scorer/scorer.py: JobScorer.AI_ML_KEYWORDS
AiMlHigh2 ==
    <<"llm", "large language model", "gpt", "claude", "openai",
      "machine learning engineer", "ml engineer", "ai engineer",
      "deep learning", "neural network", "transformer",
      "rag", "retrieval augmented generation",
      "langchain", "llama", "bert", "embeddings",
      "mlops", "model serving", "ml platform">>

AiMlMedium2 ==
    <<"machine learning", "ai", "artificial intelligence",
      "nlp", "natural language processing", "computer vision",
      "data science", "pytorch", "tensorflow", "scikit-learn",
      "hugging face", "ml", "model training", "inference">>

AiMlLow2 ==
    <<"python", "statistics", "data", "analytics",
      "algorithm", "optimization", "prediction">>

\* discovery/scorer/scorer.py: JobScorer.FINTECH_KEYWORDS
FintechKeywords2 ==
    <<"bank", "banking", "fintech", "financial services",
      "payment", "trading", "credit", "lending", "insurance",
      "fraud detection", "aml", "kyc", "compliance",
      "deutsche bank", "jpmorgan", "goldman sachs", "credit suisse",
      "visa", "mastercard", "paypal", "stripe", "square">>

\* ------------------------------------------------------------- listings
\* the fields of a payload other than location and salary_range
ProfilePerfect ==
    [listing_id |-> "perfect-123", company |-> "Fintech AI Corp",
     role |-> "Senior ML Engineer",
     description |-> "Build production LLM systems using Python, LangChain, and RAG pipelines for banking compliance",
     tech_stack |-> <<"Python", "LangChain", "OpenAI", "Kubernetes">>,
     seniority |-> "senior"]

ProfileFintech ==
    [listing_id |-> "test-3", company |-> "JPMorgan Chase",
     role |-> "Senior ML Engineer - Fraud Detection",
     description |-> "Build ML models for fraud detection and AML in banking.",
     tech_stack |-> <<"Python", "ML", "PyTorch">>,
     seniority |-> "senior"]

ProfilePlain ==
    [listing_id |-> "test-123", company |-> "AI Corp", role |-> "ML Engineer",
     description |-> "AI work", seniority |-> "mid"]

\* a payload with the two required fields of JobListing only
ProfileBare == [company |-> "Local Startup", role |-> "Office Lead"]

\* a listing whose rank is in the title only
ProfileJunior ==
    [listing_id |-> "junior-1", company |-> "AI Corp", role |-> "Junior ML Engineer",
     description |-> "AI work", seniority |-> "unknown"]

Profiles == {ProfilePerfect, ProfileFintech, ProfilePlain, ProfileBare, ProfileJunior}

Locations == {"remote", "Remote", "hybrid", "onsite"}

\* a salary_range dict; min and max are Optional
SalaryRange(lo, hi, cur) == [min |-> lo, max |-> hi, currency |-> cur]

\* the values of the salary_range key; NoKey stands for a payload without it
NoKey == {[no_key |-> TRUE]}

SalaryRanges ==
    { NoKey,
      None,
      Some(<<>>),
      Some(SalaryRange(Some(80000), Some(100000), "EUR")),
      Some(SalaryRange(Some(120000), Some(125000), "EUR")),
      Some(SalaryRange(Some(125000), Some(140000), "EUR")),
      Some(SalaryRange(Some(150000), Some(180000), "EUR")),
      Some(SalaryRange(Some(163000), Some(200000), "USD")),
      Some(SalaryRange(None, Some(140000), "EUR")),
      Some([max |-> Some(90000), currency |-> "USD"]) }

\* f @@ g of dicts: the payload f with the keys of g added
Merge(f, g) ==
    [k \in (DOMAIN f) \cup (DOMAIN g) |-> IF k \in DOMAIN g THEN g[k] ELSE f[k]]

Payload(profile, location, salary) ==
    IF salary = NoKey
    THEN Merge(profile, [location |-> location])
    ELSE Merge(profile, [location |-> location, salary_range |-> salary])

Listings ==
    { Payload(p, loc, sal) : p \in Profiles, loc \in Locations, sal \in SalaryRanges }

\* str(uuid.uuid4())
Uuids == {"uuid-1", "uuid-2"}

\* ------------------------------------------------------------ arithmetic
Digits == "0123456789"

\* str(n) of a natural number
RECURSIVE Str(_)
Str(n) == IF n < 10 THEN CharAt(Digits, n + 1) ELSE Str(n \div 10) \o CharAt(Digits, (n % 10) + 1)

\* three digits, with leading zeros
Pad3(n) == CharAt(Digits, (n \div 100) + 1) \o CharAt(Digits, ((n \div 10) % 10) + 1)
               \o CharAt(Digits, (n % 10) + 1)

\* f"{n:,}" of a natural number
RECURSIVE Commas(_)
Commas(n) == IF n < 1000 THEN Str(n) ELSE Commas(n \div 1000) \o "," \o Pad3(n % 1000)

\* f"{x:,}" of a float given in hundredths: at least one decimal, no trailing zeros
CommasFloat(x100) ==
    Commas(x100 \div 100) \o "." \o
        (IF x100 % 10 = 0 THEN Str((x100 % 100) \div 10)
         ELSE Str((x100 % 100) \div 10) \o Str(x100 % 10))

\* round(x, 2) of a total given in ten-thousandths of a point, in hundredths.
\* No total of the configurations below lies exactly between two hundredths,
\* where the binary value of the float would decide.
Round2(t) ==
    LET q == t \div 100
        r == t % 100
    IN  IF r >= 50 THEN q + 1 ELSE q

\* mutant: the product is taken with the default weight of the dimension
contribution_default(breakdown, weights, d) == breakdown[d] * DefaultWeights1[d]

\* the five products of the weighted total: sub-score times weight
contribution(breakdown, weights, d) == breakdown[d] * weights[d]

contributions(breakdown, weights) ==
    [d \in Dimensions |-> contribution(breakdown, weights, d)]

\* mutant: the total is taken with the default weights, not the configured ones
weighted_total_default(breakdown, weights) ==
    contribution(breakdown, DefaultWeights1, "remote_match")
        + contribution(breakdown, DefaultWeights1, "ai_ml_relevance")
        + contribution(breakdown, DefaultWeights1, "seniority_match")
        + contribution(breakdown, DefaultWeights1, "salary_match")
        + contribution(breakdown, DefaultWeights1, "fintech_bonus")

\* the weighted total, in ten-thousandths of a point
weighted_total(breakdown, weights) ==
    contribution(breakdown, weights, "remote_match")
        + contribution(breakdown, weights, "ai_ml_relevance")
        + contribution(breakdown, weights, "seniority_match")
        + contribution(breakdown, weights, "salary_match")
        + contribution(breakdown, weights, "fintech_bonus")

ScoreBreakdown(r, a, s, m, f) ==
    [remote_match |-> r, ai_ml_relevance |-> a, seniority_match |-> s,
     salary_match |-> m, fintech_bonus |-> f]

\* a call that raised
Raises(e) == [exception |-> e]

IsResult(r) == "rejected" \in DOMAIN r

\* the Field constraints of ScoreBreakdown and of the score
ValidFields(score, breakdown) ==
    /\ score >= 0 /\ score <= 10000
    /\ \A d \in Dimensions \ {"fintech_bonus"} : breakdown[d] >= 0 /\ breakdown[d] <= 100
    /\ breakdown.fintech_bonus >= 0 /\ breakdown.fintech_bonus <= 20

\* ScoredOpportunity(...) and ScoredJob(...): the record, or a ValidationError
ScoredOpportunity(listing_id, score, breakdown, weights, rejected, rejection_reason) ==
    IF ValidFields(score, breakdown)
    THEN [listing_id |-> listing_id, score |-> score, breakdown |-> breakdown,
          weights |-> weights, rejected |-> rejected,
          rejection_reason |-> rejection_reason]
    ELSE Raises("ValidationError")

\* ------------------------------------------------- discovery/scorer.py
\* eur_conversion, in hundredths
EurConversion1 == [EUR |-> 100, USD |-> 92, GBP |-> 115, PLN |-> 23]

\* JobScorer._score_remote
\* JobScorer._score_remote with the hybrid score of discovery/scorer/scorer.py
score_remote1_hybrid20(payload) ==
    LET location == Lower(Get(payload, "location", ""))
    IN  IF location = "remote" THEN 100
        ELSE IF location = "hybrid" THEN 20
        ELSE 0

\* JobScorer._score_remote
score_remote1(payload) ==
    LET location == Lower(Get(payload, "location", ""))
    IN  IF location = "remote" THEN 100
        ELSE IF location = "hybrid" THEN 30
        ELSE 0

\* JobScorer._score_ai_ml_relevance
score_ai_ml_relevance1(cfg, payload) ==
    LET text == Lower(Join(<<Get(payload, "role", ""), Get(payload, "description", ""),
                             Join(Get(payload, "tech_stack", <<>>), " ")>>, " "))
        unique_matches == Cardinality(FindAll(text, cfg.ai_ml_keywords))
    IN  Min(100, unique_matches * 10)

\* JobScorer._score_seniority
score_seniority1(payload) ==
    LET seniority == Lower(Get(payload, "seniority", ""))
        role == Lower(Get(payload, "role", ""))
    IN  IF seniority \in {"principal", "staff"} THEN 100
        ELSE IF seniority = "senior" THEN 90
        ELSE IF seniority = "mid" THEN 50
        ELSE IF seniority = "junior" THEN 20
        ELSE IF AnyIn(role, <<"principal", "staff">>) THEN 100
        ELSE IF Contains(role, "senior") \/ Contains(role, "lead") THEN 90
        ELSE 60

\* the salary sub-score of a listing without salary data
NeutralSalary1 == 60

\* mutant: a listing without salary data scores 0
score_salary1_zero(payload) ==
    LET salary_range == Get(payload, "salary_range", None)
    IN  IF ~TruthyDict(salary_range) THEN Some(0)
        ELSE LET sr == The(salary_range)
                 min_salary == Get(sr, "min", Some(0))
                 max_salary == Get(sr, "max", Some(0))
                 rate == Get(EurConversion1, Get(sr, "currency", "EUR"), 100)
             IN  IF min_salary = None \/ max_salary = None THEN None
                 ELSE LET max_eur == The(max_salary) * rate
                      IN  IF max_eur >= 150000 * 100 THEN Some(100)
                          ELSE IF max_eur > 130000 * 100 THEN Some(85)
                          ELSE IF max_eur >= 120000 * 100 THEN Some(70)
                          ELSE Some(50)

\* JobScorer._score_salary: the sub-score, or None where None * float raises
score_salary1(payload) ==
    LET salary_range == Get(payload, "salary_range", None)
    IN  IF ~TruthyDict(salary_range) THEN Some(NeutralSalary1)
        ELSE LET sr == The(salary_range)
                 min_salary == Get(sr, "min", Some(0))
                 max_salary == Get(sr, "max", Some(0))
                 rate == Get(EurConversion1, Get(sr, "currency", "EUR"), 100)
             IN  IF min_salary = None \/ max_salary = None THEN None
                 ELSE LET max_eur == The(max_salary) * rate
                      IN  IF max_eur >= 150000 * 100 THEN Some(100)
                          ELSE IF max_eur > 130000 * 100 THEN Some(85)
                          ELSE IF max_eur >= 120000 * 100 THEN Some(70)
                          ELSE Some(50)

\* JobScorer._score_fintech_bonus
score_fintech_bonus1(cfg, payload) ==
    LET text == Lower(Join(<<Get(payload, "company", ""), Get(payload, "role", ""),
                             Get(payload, "description", "")>>, " "))
        unique_matches == Cardinality(FindAll(text, cfg.fintech_keywords))
    IN  Min(20, unique_matches * 5)

\* the fields of a payload that the three text sub-scores read
TextFields == {"company", "role", "description", "tech_stack", "seniority"}

TextPart(payload) == [k \in (DOMAIN payload) \cap TextFields |-> payload[k]]

\* the two keyword lists of a configuration
KeywordPart(cfg) ==
    [ai_ml_keywords |-> cfg.ai_ml_keywords, fintech_keywords |-> cfg.fintech_keywords]

\* the three text sub-scores of the payloads of the model, computed once
TextScores1 ==
    [kw \in { KeywordPart(cfg) : cfg \in {Default1, Custom1, Open1} } |->
        [t \in { TextPart(p) : p \in Profiles } |->
            [ai_ml_relevance |-> score_ai_ml_relevance1(kw, t),
             seniority_match |-> score_seniority1(t),
             fintech_bonus |-> score_fintech_bonus1(kw, t)]]]

\* score_listing, the part after the hard filters
score_dimensions1(cfg, payload, listing_id) ==
    LET salary_score == score_salary1(payload)
        text == TextScores1[KeywordPart(cfg)][TextPart(payload)]
    IN  IF salary_score = None THEN Raises("TypeError")
        ELSE LET breakdown == ScoreBreakdown(score_remote1(payload),
                                             text.ai_ml_relevance,
                                             text.seniority_match,
                                             The(salary_score),
                                             text.fintech_bonus)
             IN  ScoredOpportunity(listing_id,
                                   Round2(weighted_total(breakdown, cfg.weights)),
                                   breakdown, cfg.weights, FALSE, None)

\* score_listing without its salary floor check
score_salary_floor1_skipped(cfg, payload, listing_id) ==
    score_dimensions1(cfg, payload, listing_id)

\* score_listing, from the salary floor check on
score_salary_floor1(cfg, payload, listing_id) ==
    LET salary_range == Get(payload, "salary_range", Some(<<>>))
    IN  IF TruthyDict(salary_range) /\ TruthyNum(cfg.salary_floor)
        THEN LET sr == The(salary_range)
                 min_salary == Get(sr, "min", Some(0))
                 rate == Get(EurConversion1, Get(sr, "currency", "EUR"), 100)
             IN  IF min_salary = None THEN Raises("TypeError")
                 ELSE LET min_salary_eur == The(min_salary) * rate
                      IN  IF min_salary_eur > 0
                                /\ min_salary_eur < The(cfg.salary_floor) * 100
                          THEN ScoredOpportunity(listing_id, 0,
                                   ScoreBreakdown(100, 0, 0, 0, 0), cfg.weights, TRUE,
                                   Some("Salary below floor: E"
                                            \o Commas(min_salary_eur \div 100)
                                            \o " < E" \o Commas(The(cfg.salary_floor))))
                          ELSE score_dimensions1(cfg, payload, listing_id)
        ELSE score_dimensions1(cfg, payload, listing_id)

\* score_listing with the salary floor checked before the remote filter
score_listing1_salary_first(cfg, lst, uuid) ==
    LET payload == Get(lst, "payload", lst)
        listing_id == Get(payload, "listing_id", uuid)
        r == score_salary_floor1(cfg, payload, listing_id)
    IN  IF IsResult(r) /\ r.rejected THEN r
        ELSE IF cfg.require_remote /\ Lower(Get(payload, "location", "")) /= "remote"
        THEN ScoredOpportunity(listing_id, 0, ScoreBreakdown(0, 0, 0, 0, 0),
                               cfg.weights, TRUE, Some("Not remote"))
        ELSE r

\* JobScorer.score_listing of discovery/scorer.py; uuid is what uuid4() gives
score_listing1(cfg, lst, uuid) ==
    LET payload == Get(lst, "payload", lst)
        listing_id == Get(payload, "listing_id", uuid)
    IN  IF cfg.require_remote /\ Lower(Get(payload, "location", "")) /= "remote"
        THEN ScoredOpportunity(listing_id, 0, ScoreBreakdown(0, 0, 0, 0, 0),
                               cfg.weights, TRUE, Some("Not remote"))
        ELSE score_salary_floor1(cfg, payload, listing_id)

\* ------------------------------------------ discovery/scorer/scorer.py
\* ScoringWeights.validate_sum: abs(sum - 1.0) < 0.01
validate_sum(w) ==
    LET base_sum == w.remote_match + w.ai_ml_relevance + w.seniority_match
                        + w.salary_match + w.fintech_bonus
    IN  base_sum - 10000 < 100 /\ 10000 - base_sum < 100

\* self.exchange_rates, in hundredths
ExchangeRates2 == [EUR |-> 100, USD |-> 93, GBP |-> 117, PLN |-> 23]

\* JobScorer._convert_salary_to_eur on a dict with a max that is not None:
\* the amount in hundredths of EUR
convert_salary_to_eur2(sr) ==
    The(sr.max) * Get(ExchangeRates2, Get(sr, "currency", "EUR"), 100)

\* the salary sub-score of a listing without salary data
NeutralSalary2 == 50

Filtered(rejected, reason) == [rejected |-> rejected, reason |-> reason]

\* JobScorer._apply_hard_filters: the pair it returns, or a raise
apply_hard_filters2(cfg, lst) ==
    LET location == Lower(Get(lst, "location", ""))
        salary_range == Get(lst, "salary_range", None)
    IN  IF location /= "remote"
        THEN Filtered(TRUE, Some("Not remote (location=" \o location \o ")"))
        ELSE IF TruthyNum(cfg.salary_floor) /\ TruthyDict(salary_range)
        THEN LET sr == The(salary_range)
             IN  IF "max" \notin DOMAIN sr THEN Filtered(FALSE, None)
                 ELSE IF sr.max = None THEN Raises("TypeError")
                 ELSE LET salary_eur == convert_salary_to_eur2(sr)
                      IN  IF salary_eur /= 0 /\ salary_eur < The(cfg.salary_floor) * 100
                          THEN Filtered(TRUE, Some("Below salary floor (E"
                                                \o CommasFloat(salary_eur) \o " < E"
                                                \o Commas(The(cfg.salary_floor)) \o ")"))
                          ELSE Filtered(FALSE, None)
        ELSE Filtered(FALSE, None)

\* JobScorer._score_remote
score_remote2(location) ==
    LET location_lower == Lower(location)
    IN  IF location_lower = "remote" THEN 100
        ELSE IF location_lower = "hybrid" THEN 20
        ELSE 0

\* JobScorer._score_ai_ml_relevance
score_ai_ml_relevance2(role, description, tech_stack) ==
    LET text == Lower(role \o " " \o description \o " " \o Join(tech_stack, " "))
        score == CountIn(text, AiMlHigh2) * 30 + CountIn(text, AiMlMedium2) * 15
                     + CountIn(text, AiMlLow2) * 5
    IN  Min(score, 100)

\* JobScorer._score_seniority
score_seniority2(seniority, role) ==
    LET seniority_lower == Lower(seniority)
        role_lower == Lower(role)
    IN  IF seniority_lower \in {"senior", "staff", "principal"} THEN 100
        ELSE IF AnyIn(role_lower, <<"senior", "staff", "principal", "lead", "architect">>)
        THEN 100
        ELSE IF seniority_lower = "mid" \/ Contains(role_lower, "mid") THEN 60
        ELSE IF seniority_lower = "junior" \/ Contains(role_lower, "junior") THEN 20
        ELSE 50

\* JobScorer._score_salary: the sub-score, or None where None * float raises
score_salary2(salary_range) ==
    IF ~TruthyDict(salary_range) \/ "max" \notin DOMAIN The(salary_range)
    THEN Some(NeutralSalary2)
    ELSE IF The(salary_range).max = None THEN None
    ELSE LET salary_eur == convert_salary_to_eur2(The(salary_range))
         IN  IF salary_eur = 0 THEN Some(NeutralSalary2)
             ELSE IF salary_eur >= 150000 * 100 THEN Some(100)
             ELSE IF salary_eur >= 130000 * 100 THEN Some(75)
             ELSE IF salary_eur >= 100000 * 100 THEN Some(50)
             ELSE Some(25)

\* JobScorer._score_fintech
score_fintech2(company, description) ==
    LET text == Lower(company \o " " \o description)
        matches == CountIn(text, FintechKeywords2)
    IN  IF matches >= 3 THEN 20
        ELSE IF matches >= 2 THEN 15
        ELSE IF matches >= 1 THEN 10
        ELSE 0

\* the three text sub-scores of the payloads of the model, computed once
TextScores2 ==
    [t \in { TextPart(p) : p \in Profiles } |->
        [ai_ml_relevance |-> score_ai_ml_relevance2(Get(t, "role", ""),
                                                    Get(t, "description", ""),
                                                    Get(t, "tech_stack", <<>>)),
         seniority_match |-> score_seniority2(Get(t, "seniority", "unknown"),
                                              Get(t, "role", "")),
         fintech_bonus |-> score_fintech2(Get(t, "company", ""),
                                          Get(t, "description", ""))]]

\* score_listing, the part after the hard filters
score_dimensions2(cfg, lst) ==
    LET salary_score == score_salary2(Get(lst, "salary_range", None))
        text == TextScores2[TextPart(lst)]
    IN  IF salary_score = None THEN Raises("TypeError")
        ELSE IF "listing_id" \notin DOMAIN lst THEN Raises("KeyError")
        ELSE LET breakdown ==
                     ScoreBreakdown(score_remote2(Get(lst, "location", "")),
                                    text.ai_ml_relevance,
                                    text.seniority_match,
                                    The(salary_score),
                                    text.fintech_bonus)
             IN  ScoredOpportunity(lst.listing_id,
                                   Round2(weighted_total(breakdown, cfg.weights)),
                                   breakdown, cfg.weights, FALSE, None)

\* JobScorer.score_listing of discovery/scorer/scorer.py
score_listing2(cfg, lst) ==
    LET filtered == apply_hard_filters2(cfg, lst)
    IN  IF "exception" \in DOMAIN filtered THEN filtered
        ELSE IF filtered.rejected
        THEN IF "listing_id" \notin DOMAIN lst THEN Raises("KeyError")
             ELSE ScoredOpportunity(lst.listing_id, 0, ScoreBreakdown(0, 0, 0, 0, 0),
                                    cfg.weights, TRUE, filtered.reason)
        ELSE score_dimensions2(cfg, lst)

\* score_listing of the implementation the scorer was built from
score_listing(cfg, lst, uuid) ==
    IF cfg.impl = 1 THEN score_listing1(cfg, lst, uuid) ELSE score_listing2(cfg, lst)

\* the neutral salary sub-score of the implementation
NeutralSalary(cfg) == IF cfg.impl = 1 THEN NeutralSalary1 ELSE NeutralSalary2

\* ------------------------------ application/acl_opportunity_qualifier.py
\* the reading of the clock; the model keeps a single one
Now == "2026-02-23T06:00:00Z"

\* the position of the first occurrence of the character c in s, 0 if none
Find(s, c) ==
    IF Contains(s, c) THEN CHOOSE i \in 1..Len(s) :
                               /\ CharAt(s, i) = c
                               /\ \A j \in 1..(i - 1) : CharAt(s, j) /= c
    ELSE 0

\* s.split(c) for a single character c
RECURSIVE Split(_, _)
Split(s, c) ==
    LET i == Find(s, c)
    IN  IF i = 0 THEN <<s>>
        ELSE <<SubSeq(s, 1, i - 1)>> \o Split(SubSeq(s, i + 1, Len(s)), c)

\* [x for x in q if x]
RECURSIVE NonEmpty(_)
NonEmpty(q) ==
    IF Len(q) = 0 THEN <<>>
    ELSE IF Head(q) = "" THEN NonEmpty(Tail(q))
    ELSE <<Head(q)>> \o NonEmpty(Tail(q))

\* mutant: empty items are kept
extract_keywords_keep_empty(reason) ==
    IF reason = "" \/ ~Contains(reason, ":") THEN <<>>
    ELSE IF Contains(Lower(reason), "keywords:")
    THEN LET parts == Split(reason, ":")
         IN  IF Len(parts) >= 2
             THEN LET keywords_str == Strip(parts[2])
                      pieces == Split(keywords_str, ",")
                  IN  [i \in 1..Len(pieces) |-> Strip(pieces[i])]
             ELSE <<>>
    ELSE <<>>

\* OpportunityQualifier._extract_keywords_from_reason
extract_keywords_from_reason(reason) ==
    IF reason = "" \/ ~Contains(reason, ":") THEN <<>>
    ELSE IF Contains(Lower(reason), "keywords:")
    THEN LET parts == Split(reason, ":")
         IN  IF Len(parts) >= 2
             THEN LET keywords_str == Strip(parts[2])
                      pieces == Split(keywords_str, ",")
                      keywords == [i \in 1..Len(pieces) |-> Strip(pieces[i])]
                  IN  NonEmpty(keywords)
             ELSE <<>>
    ELSE <<>>

\* mutant: the research rule is tried before the fintech rule
classify_role_type_research_first(role, company, fintech_signals, aiml_signals) ==
    LET role_lower == Lower(role)
        company_lower == Lower(company)
        is_fintech_role ==
            AnyIn(role_lower, <<"fraud", "payment", "banking", "financial", "trading",
                                "aml", "kyc">>)
        is_fintech_company ==
            AnyIn(company_lower, <<"bank", "fintech", "stripe", "jpmorgan", "goldman",
                                   "revolut">>)
        has_fintech_signals == Len(fintech_signals) >= 2
    IN  IF AnyIn(role_lower, <<"research", "scientist", "phd", "nlp",
                               "computer vision", "llm", "foundation model">>)
        THEN "ml_research"
        ELSE IF is_fintech_role \/ is_fintech_company \/ has_fintech_signals THEN "fintech"
        ELSE IF AnyIn(role_lower, <<"platform", "infrastructure", "mlops", "devops",
                                    "sre", "cloud">>)
        THEN "platform"
        ELSE "general"

\* OpportunityQualifier._classify_role_type
classify_role_type(role, company, fintech_signals, aiml_signals) ==
    LET role_lower == Lower(role)
        company_lower == Lower(company)
        is_fintech_role ==
            AnyIn(role_lower, <<"fraud", "payment", "banking", "financial", "trading",
                                "aml", "kyc">>)
        is_fintech_company ==
            AnyIn(company_lower, <<"bank", "fintech", "stripe", "jpmorgan", "goldman",
                                   "revolut">>)
        has_fintech_signals == Len(fintech_signals) >= 2
    IN  IF is_fintech_role \/ is_fintech_company \/ has_fintech_signals THEN "fintech"
        ELSE IF AnyIn(role_lower, <<"research", "scientist", "phd", "nlp",
                                    "computer vision", "llm", "foundation model">>)
        THEN "ml_research"
        ELSE IF AnyIn(role_lower, <<"platform", "infrastructure", "mlops", "devops",
                                    "sre", "cloud">>)
        THEN "platform"
        ELSE "general"

\* _extract_seniority with the senior rule tested first
extract_seniority_senior_first(role) ==
    LET role_lower == Lower(role)
    IN  IF Contains(role_lower, "senior") \/ Contains(role_lower, "sr") THEN "senior"
        ELSE IF AnyIn(role_lower, <<"principal", "staff", "architect">>) THEN "principal"
        ELSE IF AnyIn(role_lower, <<"lead", "manager">>) THEN "lead"
        ELSE "unknown"

\* OpportunityQualifier._extract_seniority
extract_seniority(role) ==
    LET role_lower == Lower(role)
    IN  IF AnyIn(role_lower, <<"principal", "staff", "architect">>) THEN "principal"
        ELSE IF Contains(role_lower, "senior") \/ Contains(role_lower, "sr") THEN "senior"
        ELSE IF AnyIn(role_lower, <<"lead", "manager">>) THEN "lead"
        ELSE "unknown"

\* mutant: a score equal to the threshold is filtered too
below_or_at_threshold(score, threshold) == score <= threshold

\* qualify: score < self.score_threshold
below_threshold(score, threshold) == score < threshold

\* OpportunityQualifier.qualify with score_threshold = threshold:
\* None, or the ApplicationCandidate
qualify(threshold, scored_event) ==
    LET payload == Get(scored_event, "payload", <<>>)
    IN  IF GetOpt(payload, "verdict") /= Some("accept") THEN None
        ELSE LET score == Get(payload, "score", 0)
             IN  IF below_threshold(score, threshold) THEN None
                 ELSE LET dimensions == Get(payload, "dimensions", <<>>)
                          fintech_dim == Get(dimensions, "fintech_bonus", <<>>)
                          fintech_signals ==
                              extract_keywords_from_reason(Get(fintech_dim, "reason", ""))
                          aiml_dim == Get(dimensions, "ai_ml_relevance", <<>>)
                          aiml_signals ==
                              extract_keywords_from_reason(Get(aiml_dim, "reason", ""))
                          role == Get(payload, "role", "")
                          company == Get(payload, "company", "")
                      IN  Some([listing_id |-> GetOpt(payload, "listing_id"),
                                company |-> company,
                                role |-> role,
                                url |-> GetOpt(payload, "url"),
                                score |-> score,
                                role_type |-> classify_role_type(role, company,
                                                  fintech_signals, aiml_signals),
                                fintech_signals |-> fintech_signals,
                                aiml_signals |-> aiml_signals,
                                tech_stack |-> <<>>,
                                seniority |-> extract_seniority(role),
                                salary_range |-> None,
                                location |-> "remote",
                                qualified_at |-> Now,
                                disc_context |->
                                    [event_id |-> GetOpt(scored_event, "timestamp"),
                                     score |-> score]])

\* OpportunityQualifier.qualify_batch: what qualify returned for each event
qualify_each(threshold, scored_events) ==
    [i \in 1..Len(scored_events) |-> qualify(threshold, scored_events[i])]

\* OpportunityQualifier.qualify_batch: the candidates
RECURSIVE qualify_batch(_, _)
qualify_batch(threshold, scored_events) ==
    IF Len(scored_events) = 0 THEN <<>>
    ELSE LET candidate == qualify(threshold, Head(scored_events))
         IN  (IF candidate /= None THEN <<The(candidate)>> ELSE <<>>)
                 \o qualify_batch(threshold, Tail(scored_events))

\* the default of score_threshold, and what generate_drafts passes
DefaultThreshold == 6000

\* --------------------------------------------------------- scored events
\* JobScorer.publish_scored_event: the line appended for a result
publish_scored_event(result) ==
    [event_type |-> "OpportunityScored", version |-> "v1", timestamp |-> Now,
     context |-> "DISC", payload |-> result]

\* one entry of the dimensions dict the qualifier reads
Dimension(score, weight, reason) == [score |-> score, weight |-> weight, reason |-> reason]

\* the payloads of the events the qualifier is written and tested against,
\* without verdict and score
AclFintech ==
    [listing_id |-> "test-001", company |-> "FinML Bank",
     role |-> "Senior ML Engineer - Fraud Detection", url |-> "https://example.com/job",
     dimensions |->
         [remote |-> Dimension(100, 3000, "Fully remote"),
          ai_ml_relevance |-> Dimension(85, 3500, "4 primary + 3 secondary keywords"),
          seniority |-> Dimension(85, 2000, "Seniority: senior"),
          salary |-> Dimension(100, 1000, "150000 EUR (>= target)"),
          fintech_bonus |-> Dimension(60, 500, "2 fintech keywords: fraud, banking")]]

AclResearch ==
    [listing_id |-> "research-001", company |-> "OpenAI",
     role |-> "Research Scientist - NLP", url |-> "https://example.com/job/research",
     dimensions |->
         [remote |-> Dimension(100, 3000, "Fully remote"),
          ai_ml_relevance |-> Dimension(95, 3500, "5 primary + 4 secondary keywords"),
          seniority |-> Dimension(85, 2000, "Seniority: senior"),
          salary |-> Dimension(100, 1000, "180000 USD (>= target)"),
          fintech_bonus |-> Dimension(0, 500, "No fintech signals")]]

AclLow ==
    [listing_id |-> "low-001", company |-> "LowScore Inc", role |-> "ML Engineer",
     url |-> "https://example.com/job", dimensions |-> <<>>]

\* a payload that has none of the keys
AclBare == [rejection_reason |-> None]

\* a payload with the keys qualify reads, the two reasons included
AclPayload(listing_id, company, role, fintech_reason, aiml_reason) ==
    [listing_id |-> listing_id, company |-> company, role |-> role,
     url |-> "https://example.com/job",
     dimensions |->
         [ai_ml_relevance |-> Dimension(85, 3500, aiml_reason),
          fintech_bonus |-> Dimension(0, 500, fintech_reason)]]

\* payloads that meet several rules of the role-type cascade, or only one,
\* with reasons of each shape
AclCascade ==
    { AclPayload("platform-001", "CloudScale", "Senior MLOps Platform Engineer",
                 "No fintech signals", "3 ai keywords: llm, , rag ,"),
      AclPayload("both-001", "OpenAI", "Research Scientist - Payments",
                 "1 fintech keywords: payments", ""),
      AclPayload("resplat-001", "DeepLab", "Research Platform Engineer",
                 "Salary: 150000", "KEYWORDS: nlp"),
      AclPayload("signals-001", "Acme AI", "ML Engineer",
                 "2 fintech keywords: fraud, banking", "No signals"),
      AclPayload("company-001", "Stripe", "Cloud Engineer",
                 "No fintech signals", "keywords:"),
      AclPayload("one-001", "Acme AI", "ML Engineer",
                 "1 fintech keywords: fraud", ""),
      AclPayload("staff-001", "Acme AI", "Senior Staff Engineer",
                 "No fintech signals", ""),
      AclPayload("manager-001", "Acme AI", "Senior Engineering Manager",
                 "No fintech signals", ""),
      AclPayload("lead-001", "Acme AI", "ML Team Lead",
                 "No fintech signals", ""),
      AclPayload("sr-001", "Acme AI", "Sr. Data Engineer",
                 "No fintech signals", ""),
      AclPayload("sre-001", "Acme AI", "ML SRE",
                 "No fintech signals", "") }

AclPayloads == {AclFintech, AclResearch, AclLow, AclBare} \cup AclCascade

\* the verdict key: absent, or one of the two verdicts
Verdicts == {<<>>, [verdict |-> "accept"], [verdict |-> "reject"]}

\* the score key: absent, or a score in hundredths
Scores == {<<>>} \cup { [score |-> x] : x \in {0, 5999, 6000, 6500, 7000, 8750} }

QualEvents ==
    { [event_type |-> "OpportunityScored", version |-> "v1", timestamp |-> Now,
       context |-> "DISC", payload |-> Merge(Merge(p, v), x)] :
          p \in AclPayloads, v \in Verdicts, x \in Scores }

\* the thresholds a qualifier is constructed with
Thresholds == {0, DefaultThreshold, 7000}

\* ------------------------------------------- discovery/sources: adapters
\* SENIORITY_MAP of WorkingNomadsSource, in the order the dict is iterated
SeniorityMapWN ==
    << <<"senior", "senior">>, <<"sr.", "senior">>, <<"lead", "senior">>,
       <<"staff", "staff">>, <<"principal", "principal">>, <<"mid", "mid">>,
       <<"junior", "junior">>, <<"jr.", "junior">> >>

\* SENIORITY_MAP of HNAlgoliaSource, in the order the dict is iterated
SeniorityMapHN ==
    << <<"senior", <<"senior", "sr.", "lead", "staff", "principal">> >>,
       <<"mid", <<"mid-level", "intermediate">> >>,
       <<"junior", <<"junior", "jr.", "entry">> >> >>

\* SENIORITY_MAP of AIJobsUKSource, in the order the dict is iterated
SeniorityMapUK ==
    << <<"senior", <<"senior", "sr.", "lead", "staff", "principal">> >>,
       <<"mid", <<"mid-level", "mid", "intermediate">> >>,
       <<"junior", <<"junior", "jr.", "entry">> >> >>

\* WorkingNomadsSource._extract_seniority: the level of the first keyword of
\* the map that is in the title
extract_seniority_wn(role) ==
    LET role_lower == Lower(role)
        hits == { i \in 1..Len(SeniorityMapWN) :
                    Contains(role_lower, SeniorityMapWN[i][1]) }
    IN  IF hits = {} THEN "unknown"
        ELSE SeniorityMapWN[CHOOSE i \in hits : \A j \in hits : i <= j][2]

\* _extract_seniority of HNAlgoliaSource and AIJobsUKSource: the first level
\* of the map one of whose keywords is in the text
extract_seniority_by_level(map, text) ==
    LET text_lower == Lower(text)
        hits == { i \in 1..Len(map) : AnyIn(text_lower, map[i][2]) }
    IN  IF hits = {} THEN "unknown"
        ELSE map[CHOOSE i \in hits : \A j \in hits : i <= j][1]

\* [$€£] of the salary patterns
IsCurrency(s, i) == i <= Len(s) /\ CharAt(s, i) \in {"$", "€", "£"}

\* [\d,]
IsDigitOrComma(c) == Contains("0123456789,", c)

\* the end of the longest run of [\d,] from position i: the position after it
RECURSIVE RunEnd(_, _)
RunEnd(s, i) ==
    IF i <= Len(s) /\ IsDigitOrComma(CharAt(s, i)) THEN RunEnd(s, i + 1) ELSE i

\* k? under IGNORECASE
SkipK(s, i) == IF i <= Len(s) /\ CharAt(s, i) \in {"k", "K"} THEN i + 1 ELSE i

\* \s*
RECURSIVE SkipSpace(_, _)
SkipSpace(s, i) ==
    IF i <= Len(s) /\ CharAt(s, i) = " " THEN SkipSpace(s, i + 1) ELSE i

NoMatch == [matched |-> FALSE]

\* the match of [$€£]([\d,]+)k?\s*-\s*[$€£]([\d,]+)k? that starts at position
\* i of s, the currency signs optional or not; every quantifier takes the
\* longest run, since what follows it cannot start inside the run
SalaryMatchAt(s, i, optional) ==
    LET a == IF IsCurrency(s, i) THEN i + 1 ELSE i
        b == RunEnd(s, a)
        d == SkipSpace(s, SkipK(s, b))
        e == SkipSpace(s, d + 1)
        f == IF IsCurrency(s, e) THEN e + 1 ELSE e
        g == RunEnd(s, f)
    IN  IF /\ (optional \/ IsCurrency(s, i))
           /\ b > a
           /\ d <= Len(s)
           /\ CharAt(s, d) = "-"
           /\ (optional \/ IsCurrency(s, e))
           /\ g > f
        THEN [matched |-> TRUE, group1 |-> SubSeq(s, a, b - 1),
              group2 |-> SubSeq(s, f, g - 1)]
        ELSE NoMatch

\* re.search: the match at the leftmost position that has one
SalarySearch(s, optional) ==
    LET starts == { i \in 1..Len(s) : SalaryMatchAt(s, i, optional).matched }
    IN  IF starts = {} THEN NoMatch
        ELSE SalaryMatchAt(s, CHOOSE i \in starts : \A j \in starts : i <= j, optional)

\* group.replace(',', '') as a number, the digits read from the left
RECURSIVE DigitsValue(_, _)
DigitsValue(s, acc) ==
    IF s = "" THEN acc
    ELSE IF CharAt(s, 1) = "," THEN DigitsValue(SubSeq(s, 2, Len(s)), acc)
    ELSE DigitsValue(SubSeq(s, 2, Len(s)),
                     10 * acc + (CHOOSE n \in 0..9 : CharAt(Digits, n + 1) = CharAt(s, 1)))

\* int(group.replace(',', '')): ValueError when no digit is left
HasDigit(s) == \E i \in 1..Len(s) : CharAt(s, i) /= ","

NoSalary == [found |-> FALSE]

\* if 'k' in text.lower(): min_sal *= 1000; max_sal *= 1000
salary_factor(text) == IF Contains(Lower(text), "k") THEN 1000 ELSE 1

\* the SalaryRange built from a match, or the ValueError of int('')
salary_of_match(text, m, currency) ==
    IF ~m.matched THEN NoSalary
    ELSE IF ~HasDigit(m.group1) \/ ~HasDigit(m.group2) THEN Raises("ValueError")
    ELSE [found |-> TRUE,
          min |-> DigitsValue(m.group1, 0) * salary_factor(text),
          max |-> DigitsValue(m.group2, 0) * salary_factor(text),
          currency |-> currency]

\* WorkingNomadsSource._extract_salary on the text of the salary element
\* (None when the card has none)
extract_salary_wn(salary_text) ==
    IF salary_text = None THEN NoSalary
    ELSE LET text == Strip(The(salary_text))
         IN  salary_of_match(text, SalarySearch(text, TRUE),
                             IF Contains(text, "€") THEN "EUR"
                             ELSE IF Contains(text, "£") THEN "GBP"
                             ELSE "USD")

\* AIJobsUKSource._extract_salary on content + str(meta) + str(acf)
extract_salary_uk(text) ==
    salary_of_match(text, SalarySearch(text, FALSE),
                    IF Contains(text, "$") THEN "USD"
                    ELSE IF Contains(text, "€") THEN "EUR"
                    ELSE "GBP")

\* the titles of the job cards
CardTitles ==
    { "Senior Staff ML Engineer",
      "Principal ML Engineer",
      "ML Engineer",
      "Junior Data Scientist, reports to Senior Lead",
      "Mid-level MLOps Engineer",
      "Jr. ML Engineer" }

\* the salary texts of the job cards: the text of the salary element of a
\* WorkingNomads card, the content of an AIJobsUK post
SalaryTexts ==
    { "",
      "Competitive",
      "$100k-$150k",
      "$100K - $150K",
      "£80,000-£120,000",
      "$80,000-$120,000 plus stock",
      "€80,000 - €120,000 per week",
      "100-150",
      "5 roles, $90k-$110k" }

Cards == { [role |-> t, salary |-> x] : t \in CardTitles, x \in SalaryTexts }

\* what each adapter extracts from each card.  HNAlgoliaSource reads the
\* seniority from the comment text and no salary; AIJobsUKSource reads the
\* seniority from title + " " + description and the salary from
\* content + str(meta) + str(acf), both dicts empty
AdapterTable ==
    [c \in Cards |->
        [working_nomads |->
            [adapter |-> "working_nomads",
             seniority |-> extract_seniority_wn(c.role),
             salary |-> extract_salary_wn(IF c.salary = "" THEN None
                                          ELSE Some(c.salary))],
         hn_algolia |->
            [adapter |-> "hn_algolia",
             seniority |-> extract_seniority_by_level(SeniorityMapHN, c.role),
             salary |-> NoSalary],
         aijobs_uk |->
            [adapter |-> "aijobs_uk",
             seniority |-> extract_seniority_by_level(SeniorityMapUK, c.role \o " "),
             salary |-> extract_salary_uk(c.salary \o "{}{}")]]]

\* WorkingNomadsSource._parse_job_card
ParseWorkingNomads ==
    /\ parsed' = AdapterTable[card].working_nomads
    /\ UNCHANGED card
    /\ UNCHANGED <<scanVars, scoreVars, pipeVars, qualVars, mainVars, concVars, hnVars>>

\* HNAlgoliaSource._parse_comment
ParseHNAlgolia ==
    /\ parsed' = AdapterTable[card].hn_algolia
    /\ UNCHANGED card
    /\ UNCHANGED <<scanVars, scoreVars, pipeVars, qualVars, mainVars, concVars, hnVars>>

\* AIJobsUKSource._parse_job
ParseAIJobsUK ==
    /\ parsed' = AdapterTable[card].aijobs_uk
    /\ UNCHANGED card
    /\ UNCHANGED <<scanVars, scoreVars, pipeVars, qualVars, mainVars, concVars, hnVars>>

\* an adapter holds one card and parses it
AdapterInit ==
    /\ ScanInit
    /\ ScoreIdle
    /\ PipeIdle
    /\ QualIdle
    /\ MainIdle
    /\ otherPub = <<>>
    /\ otherRuns = 0
    /\ card \in Cards
    /\ parsed = NotParsed
    /\ hnPc = "idle"
    /\ hnHits = 0
    /\ hnListings = <<>>
    /\ hnLost = <<>>

AdapterNext ==
    \/ ParseWorkingNomads
    \/ ParseHNAlgolia
    \/ ParseAIJobsUK

AdapterSpec == AdapterInit /\ [][AdapterNext]_vars

\* ------------------------------- HNAlgoliaSource.fetch inside a scan
\* the position of hn_algolia among the sources
HnIdx == CHOOSE i \in 1..Len(SourceNames) : SourceNames[i] = "hn_algolia"

\* what _fetch_thread_comments parses out of one thread
HnThreadResults == { <<>>, <<ListingA>>, <<ListingB, ListingA2>> }

hnRest == <<scoreVars, pipeVars, qualVars, mainVars, concVars, adapterVars>>

\* the loop of scan() calls fetch() of hn_algolia: the search request is sent
HnFetchStart ==
    /\ pc = "fetch"
    /\ idx = HnIdx
    /\ idx <= NumSources
    /\ hnPc = "idle"
    /\ hnPc' = "search"
    /\ hnListings' = <<>>
    /\ hnLost' = <<>>
    /\ UNCHANGED <<scanVars, hnHits, hnRest>>

\* the search answers with its hits (hitsPerPage bounds them)
HnSearchOk ==
    /\ hnPc = "search"
    /\ \E n \in 0..MaxHits : hnHits' = n
    /\ hnPc' = "threads"
    /\ UNCHANGED <<scanVars, hnListings, hnLost, hnRest>>

\* the exception leaves fetch(): the except branch of the loop of scan()
HnRaise ==
    /\ failures' = Append(failures, [source |-> source_name(idx), error |-> "e"])
    /\ fetchCalls' = [fetchCalls EXCEPT ![idx] = @ + 1]
    /\ raised' = raised \cup {idx}
    /\ idx' = idx + 1
    /\ hnPc' = "idle"
    /\ hnHits' = 0
    /\ hnListings' = <<>>
    /\ UNCHANGED <<pc, seen_keys, seenFile, eventFiles, sameSecond, deduped,
                   new_listings, events, summary, seen0, written, pubCount,
                   faulted, scans>>
    /\ UNCHANGED hnRest

\* requests.get or raise_for_status of the search request raises
HnSearchFail ==
    /\ hnPc = "search"
    /\ hnLost' = <<>>
    /\ UNCHANGED all_listings
    /\ HnRaise

\* _fetch_thread_comments returns: listings.extend(...)
HnThreadOk ==
    /\ hnPc = "threads"
    /\ hnHits > 0
    /\ \E ls \in HnThreadResults : hnListings' = hnListings \o ls
    /\ hnHits' = hnHits - 1
    /\ UNCHANGED <<scanVars, hnPc, hnLost, hnRest>>

\* fetch() that hands the listings parsed so far to the scan before failing
HnThreadFailPartial ==
    /\ hnPc = "threads"
    /\ hnHits > 0
    /\ hnLost' = <<>>
    /\ all_listings' = all_listings \o tag_source(hnListings, source_name(idx))
    /\ HnRaise

\* the request of a thread raises inside _fetch_thread_comments: nothing
\* catches it before scan(), the local list is dropped
HnThreadFail ==
    /\ hnPc = "threads"
    /\ hnHits > 0
    /\ hnLost' = hnListings
    /\ UNCHANGED all_listings
    /\ HnRaise

\* every thread was fetched: return self._tag_source(listings)
HnReturn ==
    /\ hnPc = "threads"
    /\ hnHits = 0
    /\ all_listings' = all_listings \o tag_source(hnListings, source_name(idx))
    /\ fetchCalls' = [fetchCalls EXCEPT ![idx] = @ + 1]
    /\ idx' = idx + 1
    /\ hnPc' = "idle"
    /\ hnListings' = <<>>
    /\ UNCHANGED <<pc, seen_keys, seenFile, eventFiles, sameSecond, failures, deduped,
                   new_listings, events, summary, raised, seen0, written,
                   pubCount, faulted, scans>>
    /\ UNCHANGED <<hnHits, hnLost, hnRest>>

\* fetch() of another source returns
OtherFetchOk == idx /= HnIdx /\ FetchOk

\* fetch() of another source raises
OtherFetchRaise == idx /= HnIdx /\ FetchRaise

\* scans whose hn_algolia fetch is taken request by request
HnNext ==
    \/ Construct
    \/ ScanStart
    \/ HnFetchStart
    \/ HnSearchOk
    \/ HnSearchFail
    \/ HnThreadOk
    \/ HnThreadFail
    \/ HnReturn
    \/ OtherFetchOk
    \/ OtherFetchRaise
    \/ Prepare
    \/ PublishSkip
    \/ PublishOk
    \/ SaveOk
    \/ Tick

HnSpec == Init /\ [][HnNext]_vars

\* ------------------------------------------------- scoring: the calls
\* score_listing on the inputs of the model, computed once
ScoreTable ==
    [cfg \in Configs |-> [l \in Listings |-> [uuid \in Uuids |-> score_listing(cfg, l, uuid)]]]

\* JobScorer(...): a scorer is built from one of the configurations
Instantiate ==
    /\ \E cfg \in Configs : scorer' = cfg
    /\ UNCHANGED <<listing, scored, scoredBy, prevScored>>
    /\ UNCHANGED <<scanVars, pipeVars, qualVars, mainVars, extVars>>

\* scorer.score_listing(listing)
ScoreListing ==
    /\ scorer /= NoScorer
    /\ \E uuid \in Uuids : scored' = ScoreTable[scorer][listing][uuid]
    /\ scoredBy' = scorer
    /\ prevScored' = scored
    /\ UNCHANGED <<scorer, listing>>
    /\ UNCHANGED <<scanVars, pipeVars, qualVars, mainVars, extVars>>

\* a caller holds one listing and scores it with the scorers it builds
ScoreInit ==
    /\ ScanInit
    /\ listing \in Listings
    /\ scorer = NoScorer
    /\ scored = NotScored
    /\ scoredBy = NoScorer
    /\ prevScored = NotScored
    /\ PipeIdle
    /\ QualIdle
    /\ MainIdle
    /\ ExtIdle

ScoreNext ==
    \/ Instantiate
    \/ ScoreListing

ScoreSpec == ScoreInit /\ [][ScoreNext]_vars

\* ------------------------------- the pipeline: score_events, generate_drafts
\* the configuration files score_events is run with
PipeConfigs == {Default1, Custom1, Open1, Invalid1}

\* the payloads of the OpportunityDiscovered events in the input file
PipeListings ==
    { Payload(ProfilePerfect, "remote", Some(SalaryRange(Some(150000), Some(180000), "EUR"))),
      Payload(ProfilePerfect, "remote", Some(SalaryRange(Some(80000), Some(100000), "EUR"))),
      Payload(ProfileFintech, "hybrid", NoKey),
      Payload(ProfilePlain, "remote", NoKey),
      Payload(ProfileBare, "remote", Some(SalaryRange(None, Some(140000), "EUR"))) }

\* score_events: scorer = JobScorer(config_path=config_path)
RunStart ==
    /\ scored = NotScored
    /\ \E cfg \in PipeConfigs : scorer' = cfg
    /\ UNCHANGED <<listing, scored, scoredBy, prevScored>>
    /\ UNCHANGED <<scanVars, pipeVars, qualVars, mainVars, extVars>>

\* score_events: scored = scorer.score_listing(event['payload']); a raise ends the run
RunScore ==
    /\ scorer /= NoScorer
    /\ scored = NotScored
    /\ Len(scoredFile) < MaxEvents
    /\ \E l \in PipeListings, uuid \in Uuids :
          LET result == ScoreTable[scorer][l][uuid]
          IN  /\ listing' = l
              /\ IF IsResult(result)
                 THEN scored' = result /\ scoredBy' = scorer /\ scorer' = scorer
                 ELSE scored' = NotScored /\ scoredBy' = NoScorer /\ scorer' = NoScorer
    /\ UNCHANGED prevScored
    /\ UNCHANGED <<scanVars, pipeVars, qualVars, mainVars, extVars>>

\* score_events: scorer.publish_scored_event(scored, output_file)
RunPublish ==
    /\ scorer /= NoScorer
    /\ scored /= NotScored
    /\ scoredFile' = Append(scoredFile, publish_scored_event(scored))
    /\ scored' = NotScored
    /\ UNCHANGED <<scorer, listing, scoredBy, prevScored, qualified>>
    /\ UNCHANGED <<scanVars, qualVars, mainVars, extVars>>

\* generate_drafts: the events of the file are loaded and qualified
GenerateDrafts ==
    /\ LET scored_events ==
               SelectSeq(scoredFile, LAMBDA e : Get(e, "event_type", "") = "OpportunityScored")
       IN  qualified' = qualify_each(DefaultThreshold, scored_events)
    /\ UNCHANGED scoredFile
    /\ UNCHANGED <<scanVars, scoreVars, qualVars, mainVars, extVars>>

PipeInit ==
    /\ ScanInit
    /\ ScoreIdle
    /\ PipeIdle
    /\ QualIdle
    /\ MainIdle
    /\ ExtIdle

PipeNext ==
    \/ RunStart
    \/ RunScore
    \/ RunPublish
    \/ GenerateDrafts

PipeSpec == PipeInit /\ [][PipeNext]_vars

\* ---------------------------------------------- the qualifier: the calls
\* qualify on the inputs of the model, computed once
QualifyTable == [t \in Thresholds |-> [e \in QualEvents |-> qualify(t, e)]]

\* OpportunityQualifier(score_threshold=t)
NewQualifier ==
    /\ \E t \in Thresholds :
          qualifier' = [constructed |-> TRUE, score_threshold |-> t]
    /\ qevent' = NoEvent
    /\ qresult' = None
    /\ UNCHANGED <<scanVars, scoreVars, pipeVars, mainVars, extVars>>

\* qualifier.qualify(scored_event)
Qualify ==
    /\ qualifier /= NoQualifier
    /\ \E e \in QualEvents :
          /\ qevent' = e
          /\ qresult' = QualifyTable[qualifier.score_threshold][e]
    /\ UNCHANGED qualifier
    /\ UNCHANGED <<scanVars, scoreVars, pipeVars, mainVars, extVars>>

QualInit ==
    /\ ScanInit
    /\ ScoreIdle
    /\ PipeIdle
    /\ QualIdle
    /\ MainIdle
    /\ ExtIdle

QualNext ==
    \/ NewQualifier
    \/ Qualify

QualSpec == QualInit /\ [][QualNext]_vars

\* ------------------------------------------------ properties: the scorers
\* the result has the shape of a rejection: no score, no sub-score, a reason
AllZero(r) ==
    /\ r.score = 0
    /\ \A d \in Dimensions : r.breakdown[d] = 0
    /\ r.rejection_reason /= None
    /\ The(r.rejection_reason) /= ""

\* C5 (as stated): every result score_listing returns for a listing that fails
\* a hard filter, in either implementation, has rejected = true, score 0, all
\* five sub-scores 0 and a non-empty rejection_reason.  The salary floor
\* rejection of discovery/scorer.py carries remote_match = 100.
C5_RejectedAllZero ==
    (IsResult(scored) /\ scored.rejected) => AllZero(scored)

\* salary_range absent or null
NoSalaryData(lst) ==
    "salary_range" \notin DOMAIN lst \/ lst.salary_range = None

StartsWith(s, prefix) ==
    Len(s) >= Len(prefix) /\ SubSeq(s, 1, Len(prefix)) = prefix

\* the result is a rejection by the salary floor, in the words of either scorer
RejectedOnSalary(r) ==
    /\ r.rejected
    /\ r.rejection_reason /= None
    /\ \/ StartsWith(The(r.rejection_reason), "Salary below floor")
       \/ StartsWith(The(r.rejection_reason), "Below salary floor")

\* C6 (as stated): a listing without salary data is never rejected on salary
\* grounds and its salary sub-score is the neutral value of the implementation,
\* neither 0 nor 100.  A listing that is not remote is rejected with an
\* all-zero breakdown, salary sub-score included.
C6_NoSalaryAlwaysNeutral ==
    (IsResult(scored) /\ NoSalaryData(listing)) =>
        /\ ~RejectedOnSalary(scored)
        /\ scored.breakdown.salary_match = NeutralSalary(scoredBy)
        /\ scored.breakdown.salary_match \notin {0, 100}

\* C6 (amended): a listing without salary data is never rejected on salary
\* grounds, whatever the floor; when score_listing does not reject it, its
\* salary sub-score is the neutral value of the implementation (60 or 50),
\* neither 0 nor 100; when it is rejected (for not being remote), the salary
\* sub-score is 0 like every other sub-score.
C6_NoSalaryNeutral ==
    (IsResult(scored) /\ NoSalaryData(listing)) =>
        /\ ~RejectedOnSalary(scored)
        /\ ~scored.rejected =>
              /\ scored.breakdown.salary_match = NeutralSalary(scoredBy)
              /\ scored.breakdown.salary_match \notin {0, 100}
        /\ scored.rejected => scored.breakdown.salary_match = 0

\* both implementations, each with a salary floor configured, have scored the
\* same remote listing without salary data
C6_Witness ==
    /\ NoSalaryData(listing)
    /\ IsResult(prevScored) /\ ~prevScored.rejected
    /\ IsResult(scored) /\ ~scored.rejected
    /\ prevScored.breakdown.salary_match = NeutralSalary1
    /\ scoredBy.impl = 2
    /\ TruthyNum(scoredBy.salary_floor)
    /\ scored.breakdown.salary_match = NeutralSalary2

\* the total a reader recomputes from a result alone, in ten-thousandths
AuditTotal(r) ==
    r.breakdown.remote_match * r.weights.remote_match
        + r.breakdown.ai_ml_relevance * r.weights.ai_ml_relevance
        + r.breakdown.seniority_match * r.weights.seniority_match
        + r.breakdown.salary_match * r.weights.salary_match
        + r.breakdown.fintech_bonus * r.weights.fintech_bonus

Auditable(r) == r.rejected \/ r.score = Round2(AuditTotal(r))

\* C7: for the non-rejected result score_listing has just returned and for
\* every OpportunityScored event published so far, by scorers of whatever
\* weights, the score is the sum of sub-score times weight over the five
\* dimensions, rounded to two decimals, taken from the breakdown and the
\* weights of that same result.
C7_ScoreIsWeightedSum ==
    /\ IsResult(scored) => Auditable(scored)
    /\ \A i \in 1..Len(scoredFile) : Auditable(scoredFile[i].payload)

\* two published events scored under different weights, both not rejected,
\* one of them with a total that rounding changes
C7_Witness ==
    /\ Len(scoredFile) >= 2
    /\ ~scoredFile[1].payload.rejected
    /\ ~scoredFile[2].payload.rejected
    /\ scoredFile[1].payload.weights /= scoredFile[2].payload.weights
    /\ scoredFile[1].payload.score > 0
    /\ AuditTotal(scoredFile[2].payload) % 100 /= 0

\* two results of one listing with the same sub-scores
SameSubScores(r1, r2) ==
    /\ IsResult(r1) /\ ~r1.rejected
    /\ IsResult(r2) /\ ~r2.rejected
    /\ r1.breakdown = r2.breakdown

\* C8: when one listing is scored twice without rejection and with the same
\* sub-scores, a dimension whose weight is larger in the second scoring
\* contributes (sub-score times weight) strictly more if its sub-score is
\* positive and the same if its sub-score is 0; it never contributes less.
C8_LargerWeightLargerContribution ==
    SameSubScores(prevScored, scored) =>
        \A d \in Dimensions :
            scored.weights[d] > prevScored.weights[d] =>
                LET before == contributions(prevScored.breakdown, prevScored.weights)[d]
                    after == contributions(scored.breakdown, scored.weights)[d]
                IN  /\ after >= before
                    /\ scored.breakdown[d] > 0 => after > before
                    /\ scored.breakdown[d] = 0 => after = before

\* the second scoring raised the weight of a dimension with a positive
\* sub-score and the weight of a dimension with sub-score 0
C8_Witness ==
    /\ SameSubScores(prevScored, scored)
    /\ \E d \in Dimensions :
          scored.weights[d] > prevScored.weights[d] /\ scored.breakdown[d] > 0
    /\ \E d \in Dimensions :
          scored.weights[d] > prevScored.weights[d] /\ scored.breakdown[d] = 0

\* score_listing of discovery/scorer.py has been called on the listing
Scored1 == scored /= NotScored /\ scoredBy.impl = 1

\* C14 (as stated): score_listing of discovery/scorer.py returns a result,
\* and does not raise, for every remote listing that has its listing_id,
\* whatever is missing or null in its salary_range, seniority or tech_stack.
\* A salary_range whose min or max is null raises TypeError.
C14_MalformedNeverRaises ==
    (Scored1 /\ listing.location \in {"remote", "Remote"}
        /\ "listing_id" \in DOMAIN listing) => IsResult(scored)

\* C15 (as stated): score_listing returns no result, scored or rejected, for
\* a listing without listing_id, in either implementation.
\* discovery/scorer.py gives such a listing a fresh uuid and scores it.
C15_NoIdentityFailsHard ==
    (scored /= NotScored /\ "listing_id" \notin DOMAIN listing) => ~IsResult(scored)

\* the rank table of the seniority sub-score
RankTable == [principal |-> 100, staff |-> 100, senior |-> 90, mid |-> 50, junior |-> 20]

\* the rank of each listing of the model that has one: the seniority field
\* when it names a level, else the rank keyword in the role title
RankOf ==
    ("perfect-123" :> "senior") @@ ("test-3" :> "senior") @@ ("test-123" :> "mid")
        @@ ("junior-1" :> "junior")

\* C17 (as stated): in discovery/scorer.py the seniority sub-score of a
\* listing is the rank-table score (principal = staff = 100, senior = 90,
\* mid = 50, junior = 20) of its seniority field or, when the field is
\* unknown, of the rank keyword in its role title.  The title is scanned for
\* principal, staff, senior and lead only: a junior title scores 60.
C17_SeniorityRankTable ==
    (Scored1 /\ IsResult(scored) /\ ~scored.rejected
        /\ scored.listing_id \in DOMAIN RankOf) =>
        scored.breakdown.seniority_match = RankTable[RankOf[scored.listing_id]]

\* the scorer rejects every listing that is not remote
RequiresRemote(cfg) == cfg.impl = 2 \/ cfg.require_remote

\* the location of the listing, lower-cased, is not "remote"
NotRemote(lst) == lst.location \notin {"remote", "Remote"}

\* the salary_range of the listing when it gives both ends as numbers
HasSalaryEnds(lst) ==
    /\ ~NoSalaryData(lst)
    /\ "min" \in DOMAIN The(lst.salary_range)
    /\ "max" \in DOMAIN The(lst.salary_range)
    /\ The(lst.salary_range).min /= None
    /\ The(lst.salary_range).max /= None

\* C22: the hard filters run in a fixed order before any dimension is
\* scored and stop at the first failure.  A listing that is not remote, under
\* a scorer that requires remote, is rejected with the not-remote reason
\* whatever its salary is (below the floor, or a null that the floor check
\* could not read); a rejection on salary grounds is given to remote listings
\* only; and a rejected result carries no computed dimension: score 0 and
\* ai_ml_relevance, seniority_match, salary_match and fintech_bonus 0.
C22_FiltersInOrder ==
    scored /= NotScored =>
        /\ (RequiresRemote(scoredBy) /\ NotRemote(listing)
                /\ (scoredBy.impl = 2 => "listing_id" \in DOMAIN listing)) =>
              /\ IsResult(scored)
              /\ scored.rejected
              /\ StartsWith(The(scored.rejection_reason), "Not remote")
        /\ (IsResult(scored) /\ RejectedOnSalary(scored)) => ~NotRemote(listing)
        /\ (IsResult(scored) /\ scored.rejected) =>
              /\ scored.score = 0
              /\ \A d \in Dimensions \ {"remote_match"} : scored.breakdown[d] = 0

\* a hybrid listing that pays 80,000 to 100,000 EUR fails both filters of the
\* default scorer (floor 120,000) and is rejected for not being remote
C22_Witness ==
    /\ scoredBy = Default1
    /\ listing.location = "hybrid"
    /\ HasSalaryEnds(listing)
    /\ The(listing.salary_range).min = Some(80000)
    /\ IsResult(scored)
    /\ scored.rejected
    /\ scored.rejection_reason = Some("Not remote")

\* C23 (as stated): for every listing and every weight vector the
\* configuration model accepts (each weight within [0, 1]), score_listing of
\* discovery/scorer.py builds its result without failing on a bound: the
\* sub-scores lie in [0, 100], the fintech bonus in [0, 20] and the total in
\* [0, 100].  With all five weights at 1.0 the weighted sum of a remote
\* listing is above 100 and ScoredOpportunity raises ValidationError.
C23_ResultWithinBounds ==
    Scored1 =>
        /\ scored /= Raises("ValidationError")
        /\ IsResult(scored) =>
              /\ scored.score >= 0 /\ scored.score <= 100 * 100
              /\ \A d \in Dimensions \ {"fintech_bonus"} :
                    scored.breakdown[d] \in 0..100
              /\ scored.breakdown.fintech_bonus \in 0..20

\* C24: in discovery/scorer.py the remote sub-score of a result that is not
\* rejected is 100 for a remote location, 30 for hybrid and 0 for any other;
\* when require_remote is enabled it is always 100, so that 30 and 0 are
\* scored only with require_remote disabled.
C24_RemoteSubScore ==
    (Scored1 /\ IsResult(scored) /\ ~scored.rejected) =>
        /\ scored.breakdown.remote_match =
              (IF listing.location \in {"remote", "Remote"} THEN 100
               ELSE IF listing.location = "hybrid" THEN 30
               ELSE 0)
        /\ scoredBy.require_remote => scored.breakdown.remote_match = 100

\* a hybrid listing scored 30 on remote by the scorer without hard filters
C24_Witness ==
    /\ Scored1
    /\ ~scoredBy.require_remote
    /\ listing.location = "hybrid"
    /\ IsResult(scored)
    /\ ~scored.rejected
    /\ scored.breakdown.remote_match = 30

Called == qevent /= NoEvent

\* the payload's verdict is "accept" and its score, 0 if missing, is not below
\* the threshold
Passes ==
    /\ "verdict" \in DOMAIN qevent.payload
    /\ qevent.payload.verdict = "accept"
    /\ Get(qevent.payload, "score", 0) >= qualifier.score_threshold

\* C9: qualify returns None exactly when the verdict of the payload is not
\* "accept" or its score (0 if missing) is strictly below the threshold of the
\* qualifier; otherwise, a score equal to the threshold included, it returns a
\* candidate with the listing_id, company, role and score of the payload.
C9_QualifyFilters ==
    Called =>
        /\ (qresult = None) <=> ~Passes
        /\ Passes =>
              /\ The(qresult).listing_id = GetOpt(qevent.payload, "listing_id")
              /\ The(qresult).company = Get(qevent.payload, "company", "")
              /\ The(qresult).role = Get(qevent.payload, "role", "")
              /\ The(qresult).score = Get(qevent.payload, "score", 0)

\* an accepted event whose score equals the threshold gave a candidate
C9_Witness ==
    /\ Called
    /\ Passes
    /\ "score" \in DOMAIN qevent.payload
    /\ qevent.payload.score = qualifier.score_threshold
    /\ qualifier.score_threshold > 0
    /\ qresult /= None
    /\ The(qresult).listing_id = Some("test-001")

RoleTypes == {"fintech", "ml_research", "platform", "general"}

Rules(fintech, research, platform) ==
    [fintech |-> fintech, research |-> research, platform |-> platform]

\* which rules of the cascade each payload of the model meets, read off its
\* role, its company and the number of its fintech signals
RulesMet ==
    [id \in { GetOpt(p, "listing_id") : p \in AclPayloads } |->
        CASE id = Some("test-001")     -> Rules(TRUE, FALSE, FALSE)
          [] id = Some("research-001") -> Rules(FALSE, TRUE, FALSE)
          [] id = Some("low-001")      -> Rules(FALSE, FALSE, FALSE)
          [] id = None                 -> Rules(FALSE, FALSE, FALSE)
          [] id = Some("platform-001") -> Rules(FALSE, FALSE, TRUE)
          [] id = Some("both-001")     -> Rules(TRUE, TRUE, FALSE)
          [] id = Some("resplat-001")  -> Rules(FALSE, TRUE, TRUE)
          [] id = Some("signals-001")  -> Rules(TRUE, FALSE, FALSE)
          [] id = Some("company-001")  -> Rules(TRUE, FALSE, TRUE)
          [] id = Some("one-001")      -> Rules(FALSE, FALSE, FALSE)
          [] id = Some("staff-001")    -> Rules(FALSE, FALSE, FALSE)
          [] id = Some("manager-001")  -> Rules(FALSE, FALSE, FALSE)
          [] id = Some("lead-001")     -> Rules(FALSE, FALSE, FALSE)
          [] id = Some("sr-001")       -> Rules(FALSE, FALSE, FALSE)
          [] id = Some("sre-001")      -> Rules(FALSE, FALSE, TRUE)]

\* the earliest rule met
FirstRule(met) ==
    IF met.fintech THEN "fintech"
    ELSE IF met.research THEN "ml_research"
    ELSE IF met.platform THEN "platform"
    ELSE "general"

\* C11: every candidate qualify returns has one role_type out of fintech,
\* ml_research, platform, general, and it is the one of the first rule met in
\* the order fintech (keyword in the role, keyword in the company, or at least
\* two fintech signals), ml_research, platform, otherwise general.
C11_RoleTypeCascade ==
    (Called /\ qresult /= None) =>
        /\ The(qresult).role_type \in RoleTypes
        /\ The(qresult).role_type = FirstRule(RulesMet[The(qresult).listing_id])

\* candidates were returned for a payload meeting the fintech and the research
\* rule: the role type is that of the earlier rule
C11_Witness ==
    /\ Called
    /\ qresult /= None
    /\ The(qresult).listing_id = Some("both-001")
    /\ RulesMet[The(qresult).listing_id].fintech
    /\ RulesMet[The(qresult).listing_id].research
    /\ The(qresult).role_type = "fintech"

\* the reason of a dimension of the event handed to qualify, "" if missing
ReasonOf(dim) ==
    Get(Get(Get(qevent.payload, "dimensions", <<>>), dim, <<>>), "reason", "")

\* the items each reason of the model lists after its colon, trimmed, in
\* order, without the empty ones; none for a reason that is empty, has no
\* colon or has no "keywords:"
ItemsOf ==
    ("2 fintech keywords: fraud, banking" :> <<"fraud", "banking">>)
        @@ ("1 fintech keywords: payments" :> <<"payments">>)
        @@ ("1 fintech keywords: fraud" :> <<"fraud">>)
        @@ ("3 ai keywords: llm, , rag ," :> <<"llm", "rag">>)
        @@ ("keywords:" :> <<>>)
        @@ ("" :> <<>>)
        @@ ("No fintech signals" :> <<>>)
        @@ ("No signals" :> <<>>)
        @@ ("4 primary + 3 secondary keywords" :> <<>>)
        @@ ("5 primary + 4 secondary keywords" :> <<>>)
        @@ ("Salary: 150000" :> <<>>)

\* C18: the fintech and AI/ML signal lists of a candidate are the
\* comma-separated items after the colon of the reason "N <category>
\* keywords: a, b, c" of the dimension, trimmed, in order, empty items
\* dropped; a reason that is empty, has no colon or does not contain
\* "keywords:" gives an empty list.
C18_SignalsFromReason ==
    (Called /\ qresult /= None) =>
        /\ ReasonOf("fintech_bonus") \in DOMAIN ItemsOf =>
              The(qresult).fintech_signals = ItemsOf[ReasonOf("fintech_bonus")]
        /\ ReasonOf("ai_ml_relevance") \in DOMAIN ItemsOf =>
              The(qresult).aiml_signals = ItemsOf[ReasonOf("ai_ml_relevance")]

\* a candidate whose AI/ML reason has blank-padded and empty items, and whose
\* fintech reason has no colon
C18_Witness ==
    /\ Called
    /\ qresult /= None
    /\ ReasonOf("ai_ml_relevance") = "3 ai keywords: llm, , rag ,"
    /\ The(qresult).aiml_signals = <<"llm", "rag">>
    /\ ReasonOf("fintech_bonus") = "No fintech signals"
    /\ The(qresult).fintech_signals = <<>>

\* the seniority keywords in the role title of each payload of the model
\* ("" for a payload without role): principal, staff or architect; senior or
\* sr; lead or manager
TitleHas(principal, senior, lead) ==
    [principal |-> principal, senior |-> senior, lead |-> lead]

TitleKeywords ==
    ("Senior ML Engineer - Fraud Detection" :> TitleHas(FALSE, TRUE, FALSE))
        @@ ("Research Scientist - NLP" :> TitleHas(FALSE, FALSE, FALSE))
        @@ ("ML Engineer" :> TitleHas(FALSE, FALSE, FALSE))
        @@ ("" :> TitleHas(FALSE, FALSE, FALSE))
        @@ ("Senior MLOps Platform Engineer" :> TitleHas(FALSE, TRUE, FALSE))
        @@ ("Research Scientist - Payments" :> TitleHas(FALSE, FALSE, FALSE))
        @@ ("Research Platform Engineer" :> TitleHas(FALSE, FALSE, FALSE))
        @@ ("Cloud Engineer" :> TitleHas(FALSE, FALSE, FALSE))
        @@ ("Senior Staff Engineer" :> TitleHas(TRUE, TRUE, FALSE))
        @@ ("Senior Engineering Manager" :> TitleHas(FALSE, TRUE, TRUE))
        @@ ("ML Team Lead" :> TitleHas(FALSE, FALSE, TRUE))
        @@ ("Sr. Data Engineer" :> TitleHas(FALSE, TRUE, FALSE))
        @@ ("ML SRE" :> TitleHas(FALSE, TRUE, FALSE))

\* the label of the first seniority rule the title meets
FirstSeniority(has) ==
    IF has.principal THEN "principal"
    ELSE IF has.senior THEN "senior"
    ELSE IF has.lead THEN "lead"
    ELSE "unknown"

\* C29: the seniority of every candidate qualify returns is derived from the
\* role title alone by the ordered cascade principal, staff or architect ->
\* "principal"; senior or sr -> "senior"; lead or manager -> "lead";
\* otherwise "unknown".  It does not depend on the dimensions of the event:
\* a title without keyword gives "unknown" whatever the seniority dimension
\* says.
C29_SeniorityFromTitle ==
    (Called /\ qresult /= None) =>
        The(qresult).seniority = FirstSeniority(TitleKeywords[The(qresult).role])

\* a title with a senior and a staff keyword is labelled principal
C29_Witness ==
    /\ Called
    /\ qresult /= None
    /\ The(qresult).role = "Senior Staff Engineer"
    /\ The(qresult).seniority = "principal"

\* ----------------------------------------------- properties: the adapters
\* the levels of an adapter's keyword map that each title names
Named(working_nomads, others) ==
    [working_nomads |-> working_nomads, hn_algolia |-> others, aijobs_uk |-> others]

NamedLevels ==
    ("Senior Staff ML Engineer" :> Named({"senior", "staff"}, {"senior"}))
        @@ ("Principal ML Engineer" :> Named({"principal"}, {"senior"}))
        @@ ("ML Engineer" :> Named({}, {}))
        @@ ("Junior Data Scientist, reports to Senior Lead"
                :> Named({"junior", "senior"}, {"junior", "senior"}))
        @@ ("Mid-level MLOps Engineer" :> Named({"mid"}, {"mid"}))
        @@ ("Jr. ML Engineer" :> Named({"junior"}, {"junior"}))

LevelRank == [junior |-> 1, mid |-> 2, senior |-> 3, staff |-> 4, principal |-> 5]

\* the most senior of a set of levels, unknown for the empty set
MostSenior(levels) ==
    IF levels = {} THEN "unknown"
    ELSE CHOOSE l \in levels : \A m \in levels : LevelRank[m] <= LevelRank[l]

\* C26 (as stated): in every source adapter the seniority extracted from a
\* text is the level of the most senior keyword the text names (the keywords
\* being tested in descending order of level), and unknown when it names
\* none.  WorkingNomadsSource tests senior, sr. and lead before staff and
\* principal: "Senior Staff ML Engineer" is labelled senior.
C26_MostSeniorLevelWins ==
    parsed /= NotParsed =>
        parsed.seniority = MostSenior(NamedLevels[card.role][parsed.adapter])

\* the numbers each salary text of the model writes, and whether they carry
\* a k suffix
Written(min, max, k) == [min |-> min, max |-> max, k |-> k]

WrittenSalary ==
    ("$100k-$150k" :> Written(100, 150, TRUE))
        @@ ("$100K - $150K" :> Written(100, 150, TRUE))
        @@ ("£80,000-£120,000" :> Written(80000, 120000, FALSE))
        @@ ("$80,000-$120,000 plus stock" :> Written(80000, 120000, FALSE))
        @@ ("€80,000 - €120,000 per week" :> Written(80000, 120000, FALSE))
        @@ ("100-150" :> Written(100, 150, FALSE))
        @@ ("5 roles, $90k-$110k" :> Written(90, 110, TRUE))

\* C27 (as stated): the salary WorkingNomadsSource and AIJobsUKSource
\* extract is the written range times 1000 exactly when the matched numbers
\* carry a k suffix; a range written in full is returned unchanged whatever
\* text surrounds it.  The adapters look for a k anywhere in the text:
\* "$80,000-$120,000 plus stock" gives 80,000,000 to 120,000,000.
C27_ThousandsOnlyWithSuffix ==
    (parsed.adapter \in {"working_nomads", "aijobs_uk"} /\ parsed.salary /= NoSalary) =>
        LET w == WrittenSalary[card.salary]
            factor == IF w.k THEN 1000 ELSE 1
        IN  /\ "found" \in DOMAIN parsed.salary
            /\ parsed.salary.min = w.min * factor
            /\ parsed.salary.max = w.max * factor

\* C28: HNAlgoliaSource.fetch is all-or-nothing.  When the search request or
\* the request of any thread failed, fetch raised: the scan has hn_algolia
\* among its failures, counts it as failed, and none of the listings it
\* fetched comes from hn_algolia, those parsed before the failure included.
C28_HnAllOrNothing ==
    /\ hnPc = "idle" => hnListings = <<>>
    /\ (pc \in {"fetch", "publish", "save", "done"} /\ HnIdx \in raised) =>
          /\ \E i \in 1..Len(failures) : failures[i].source = "hn_algolia"
          /\ \A i \in 1..Len(all_listings) :
                "hn_algolia" \notin Range(all_listings[i].sources)
          /\ (pc = "done" /\ summary.returned) =>
                /\ summary.sources_failed >= 1
                /\ summary.total_fetched = Len(all_listings)

\* a scan has returned whose hn_algolia fetch failed on a thread after
\* listings of an earlier thread were parsed
C28_Witness ==
    /\ pc = "done"
    /\ summary.returned
    /\ HnIdx \in raised
    /\ hnLost /= <<>>

\* ----------------------------------------------- properties: the pipeline
\* C16 (as stated): no listing is scored and no scored event is written with
\* a weight vector whose five weights do not sum to 1.0 within 0.01.
\* JobScorer of discovery/scorer.py loads any weights within [0, 1] from its
\* configuration file and score_events scores and publishes with them.
C16_NoScoringWithInvalidWeights ==
    /\ IsResult(scored) => validate_sum(scored.weights)
    /\ \A i \in 1..Len(scoredFile) : validate_sum(scoredFile[i].payload.weights)

\* C10 (as stated): every event publish_scored_event wrote for a result with
\* rejected = false and a score at or above the threshold of the qualifier
\* gives, when generate_drafts hands it to qualify, a candidate with the same
\* listing_id and score.  The payload the scorer publishes has no verdict, so
\* qualify returns None for every one of them.
C10_ScoredEventsQualify ==
    \A i \in 1..Len(qualified) :
        LET result == scoredFile[i].payload
        IN  (~result.rejected /\ result.score >= DefaultThreshold) =>
                /\ qualified[i] /= None
                /\ The(qualified[i]).listing_id = Some(result.listing_id)
                /\ The(qualified[i]).score = result.score


====
